---- MODULE Spec2Model ----
(***************************************************************************)
(* Rule-logic pipeline of the Foundry Rules CLI: the compressor            *)
(* (compression.ts), the template builder (templates/loader.ts), the       *)
(* three validation passes (validation/schema.ts, properties.ts,           *)
(* filters.ts) and the full validators that compose them (index.ts,        *)
(* proposal-cli-v2.ts).                                                    *)
(*                                                                         *)
(* A behaviour is one caller: Init draws the caller's argument from a      *)
(* bounded set, and each action is one call.  The functions write no       *)
(* state; the one object a module keeps between calls is DEFAULT_MACRO of  *)
(* templates/loader.ts, which the caller that keeps several built trees    *)
(* can reach through them.                                                 *)
(***************************************************************************)
EXTENDS Integers, Sequences, FiniteSets, TLC

\* pc: where the caller is; arg: what it passes; ret: what it got back;
\* heap: the objects the loaded modules keep between calls;
\* sent: the calls of Actions.apply the Foundry API has received, in order;
\* now: what Date.now() returns
VARIABLES pc, arg, ret, heap, sent, now

\* what lies outside the process
outside == <<sent, now>>

vars == <<pc, arg, ret, heap, sent, now>>

(***************************************************************************)
(* JavaScript values.  Every value is a record tagged with its kind; an    *)
(* object is a function from its own keys to values (key order is not      *)
(* kept: deep equality does not observe it), an array is a sequence.  The  *)
(* payload field is named after the kind, so that values of different      *)
(* kinds are records over different fields and compare unequal.            *)
(* A string is one of three sorts: plain text (field s), a JSON text       *)
(* (field txt, the sequence of its tokens) or an LZ-encoded text (field    *)
(* enc, the sequence of its code symbols); a string built by a template    *)
(* literal keeps its pieces (field parts), so that what a message          *)
(* contains can be asked.                                                  *)
(***************************************************************************)
Undef == [t |-> "undefined"]
Null == [t |-> "null"]
Bool(b) == [t |-> "boolean", b |-> b]
Num(n) == [t |-> "number", n |-> n]
Str(s) == [t |-> "string", s |-> s]
Txt(toks) == [t |-> "string", txt |-> toks]
Enc(syms) == [t |-> "string", enc |-> syms]
\* a template literal: the concatenation of its pieces
Fmt(parts) == [t |-> "string", parts |-> parts]
Arr(s) == [t |-> "array", a |-> s]
Obj(f) == [t |-> "object", o |-> f]
EmptyObj == Obj(<<>>)

IsNullish(x) == x.t \in {"undefined", "null"}
IsString(x) == x.t = "string"
IsArray(x) == x.t = "array"
\* typeof x === 'object'
TypeofObject(x) == x.t \in {"object", "array", "null"}

IsEmptyString(x) ==
  /\ x.t = "string"
  /\ \/ "s" \in DOMAIN x /\ x.s = ""
     \/ "txt" \in DOMAIN x /\ x.txt = <<>>
     \/ "enc" \in DOMAIN x /\ x.enc = <<>>

\* ToBoolean
Truthy(x) ==
  CASE x.t \in {"undefined", "null"} -> FALSE
    [] x.t = "boolean" -> x.b
    [] x.t = "number" -> x.n # 0
    [] x.t = "string" -> ~IsEmptyString(x)
    [] OTHER -> TRUE

\* x.k for a value x that is not null or undefined
Get(x, k) == IF x.t = "object" /\ k \in DOMAIN x.o THEN x.o[k] ELSE Undef
\* x?.k
OptGet(x, k) == IF IsNullish(x) THEN Undef ELSE Get(x, k)
\* 'k' in x, for an object or array x
HasKey(x, k) == x.t = "object" /\ k \in DOMAIN x.o

\* xs.includes(x)
Includes(xs, x) == \E i \in 1..Len(xs) : xs[i] = x

\* String(x), as a template literal interpolates x
ToText(x) ==
  CASE x.t = "undefined" -> "undefined"
    [] x.t = "null" -> "null"
    [] x.t = "boolean" -> IF x.b THEN "true" ELSE "false"
    [] x.t = "number" -> ToString(x.n)
    [] x.t = "string" /\ "s" \in DOMAIN x -> x.s
    [] OTHER -> "[object Object]"

\* whether message msg has piece among its pieces
Contains(msg, piece) ==
  /\ msg.t = "string"
  /\ \/ "s" \in DOMAIN msg /\ msg.s = piece
     \/ "parts" \in DOMAIN msg /\ Includes(msg.parts, piece)

\* the outcome of a call: a returned value or a thrown error
Returned(v) == [thrown |-> FALSE, val |-> v]
Thrown(name, msg) == [thrown |-> TRUE, name |-> name, message |-> msg]

(***************************************************************************)
(* JSON.stringify and JSON.parse.  A JSON text is the sequence of its      *)
(* tokens: punctuation, the literals null/true/false, a number, a string   *)
(* literal.  Anything else in a text is a token of kind "word".            *)
(***************************************************************************)
Punct(p) == [k |-> "punct", p |-> p]
Literal(l) == [k |-> "literal", l |-> l]
NumberTok(n) == [k |-> "number", n |-> n]
StringTok(s) == [k |-> "string", str |-> s]
Word(w) == [k |-> "word", w |-> w]
LBrace == Punct("{")
RBrace == Punct("}")
LBrack == Punct("[")
RBrack == Punct("]")
Comma == Punct(",")
Colon == Punct(":")

RECURSIVE SetToSeq(_)
SetToSeq(S) ==
  IF S = {} THEN <<>>
  ELSE LET x == CHOOSE y \in S : TRUE IN <<x>> \o SetToSeq(S \ {x})

RECURSIVE JoinTokens(_, _)
\* parts[1] , parts[2] , ... with sep between them
JoinTokens(parts, sep) ==
  IF Len(parts) = 0 THEN <<>>
  ELSE IF Len(parts) = 1 THEN parts[1]
  ELSE parts[1] \o <<sep>> \o JoinTokens(Tail(parts), sep)

RECURSIVE SerializeJSON(_)
\* the tokens JSON.stringify writes for a value other than undefined
SerializeJSON(x) ==
  CASE x.t = "null" -> <<Literal("null")>>
    [] x.t = "boolean" -> <<Literal(IF x.b THEN "true" ELSE "false")>>
    [] x.t = "number" -> <<NumberTok(x.n)>>
    [] x.t = "string" -> <<StringTok(x)>>
    [] x.t = "array" ->
         <<LBrack>>
         \o JoinTokens([i \in 1..Len(x.a) |->
                          IF x.a[i].t = "undefined" THEN <<Literal("null")>>
                          ELSE SerializeJSON(x.a[i])], Comma)
         \o <<RBrack>>
    [] x.t = "object" ->
         LET keys == SetToSeq({k \in DOMAIN x.o : x.o[k].t # "undefined"})
         IN <<LBrace>>
            \o JoinTokens([i \in 1..Len(keys) |->
                             <<StringTok(Str(keys[i])), Colon>>
                             \o SerializeJSON(x.o[keys[i]])], Comma)
            \o <<RBrace>>

\* JSON.stringify(x): a JSON text, or undefined for undefined
JSONstringify(x) == IF x.t = "undefined" THEN Undef ELSE Txt(SerializeJSON(x))

ParseFail == [ok |-> FALSE]
ParseOk(v, next) == [ok |-> TRUE, val |-> v, next |-> next]

RECURSIVE ParseValue(_, _)
RECURSIVE ParseElements(_, _, _)
RECURSIVE ParseMembers(_, _, _)

\* the value that starts at token i, and the index after it
ParseValue(ts, i) ==
  IF i > Len(ts) THEN ParseFail
  ELSE LET tk == ts[i] IN
    CASE tk.k = "literal" ->
           ParseOk(CASE tk.l = "null" -> Null
                     [] tk.l = "true" -> Bool(TRUE)
                     [] OTHER -> Bool(FALSE), i + 1)
      [] tk.k = "number" -> ParseOk(Num(tk.n), i + 1)
      [] tk.k = "string" -> ParseOk(tk.str, i + 1)
      [] tk = LBrack ->
           IF i + 1 <= Len(ts) /\ ts[i + 1] = RBrack
           THEN ParseOk(Arr(<<>>), i + 2)
           ELSE ParseElements(ts, i + 1, <<>>)
      [] tk = LBrace ->
           IF i + 1 <= Len(ts) /\ ts[i + 1] = RBrace
           THEN ParseOk(EmptyObj, i + 2)
           ELSE ParseMembers(ts, i + 1, <<>>)
      [] OTHER -> ParseFail

ParseElements(ts, i, acc) ==
  LET r == ParseValue(ts, i) IN
  IF ~r.ok \/ r.next > Len(ts) THEN ParseFail
  ELSE IF ts[r.next] = Comma THEN ParseElements(ts, r.next + 1, Append(acc, r.val))
  ELSE IF ts[r.next] = RBrack THEN ParseOk(Arr(Append(acc, r.val)), r.next + 1)
  ELSE ParseFail

ParseMembers(ts, i, acc) ==
  IF i + 1 > Len(ts) THEN ParseFail
  ELSE IF ts[i].k # "string" \/ "s" \notin DOMAIN ts[i].str \/ ts[i + 1] # Colon
  THEN ParseFail
  ELSE LET r == ParseValue(ts, i + 2)
           key == ts[i].str.s
       IN IF ~r.ok \/ r.next > Len(ts) THEN ParseFail
          ELSE LET acc2 == (key :> r.val) @@ acc IN
               IF ts[r.next] = Comma THEN ParseMembers(ts, r.next + 1, acc2)
               ELSE IF ts[r.next] = RBrace THEN ParseOk(Obj(acc2), r.next + 1)
               ELSE ParseFail

\* JSON.parse(text): the value, or a SyntaxError
JSONparse(text) ==
  IF "txt" \notin DOMAIN text THEN Thrown("SyntaxError", "Unexpected token")
  ELSE LET r == ParseValue(text.txt, 1) IN
       IF r.ok /\ r.next = Len(text.txt) + 1
       THEN Returned(r.val)
       ELSE Thrown("SyntaxError", "Unexpected token")

(***************************************************************************)
(* The lz-string codec behind LZString.compressToEncodedURIComponent and   *)
(* LZString.decompressFromEncodedURIComponent, at the level of its code    *)
(* symbols (the packing of the symbols into URI-safe characters is not     *)
(* modelled).  A symbol is Lit(ch), the marker that introduces a character *)
(* seen for the first time followed by the character, or Code(n), the      *)
(* dictionary index of a phrase; Code(2) ends the stream.  Dictionary      *)
(* indices start at 3: entry i of the sequence dict has index i + 2.       *)
(***************************************************************************)
Lit(ch) == [c |-> 0, ch |-> ch]
Code(n) == [c |-> n]
EndOfStream == Code(2)

IndexOf(dict, phrase) == 2 + CHOOSE i \in 1..Len(dict) : dict[i] = phrase
Without(xs, x) == SelectSeq(xs, LAMBDA y : y # x)

\* the symbol written for phrase w, and the characters still to introduce
LZEmit(st) ==
  IF Len(st.w) = 1 /\ Includes(st.toCreate, st.w[1])
  THEN [st EXCEPT !.out = Append(@, Lit(st.w[1])),
                  !.toCreate = Without(@, st.w[1])]
  ELSE [st EXCEPT !.out = Append(@, Code(IndexOf(st.dict, st.w)))]

\* one turn of the loop of _compress, on character ch
LZStep(st, ch) ==
  LET isNew == ~Includes(st.dict, <<ch>>)
      st1 == IF isNew
             THEN [st EXCEPT !.dict = Append(@, <<ch>>),
                             !.toCreate = Append(@, ch)]
             ELSE st
      wc == Append(st1.w, ch)
  IN IF Includes(st1.dict, wc)
     THEN [st1 EXCEPT !.w = wc]
     ELSE [LZEmit(st1) EXCEPT !.dict = Append(@, wc), !.w = <<ch>>]

RECURSIVE LZCompressFrom(_, _, _, _)
\* the loop of _compress over text[lo..hi], from state st: the turns are
\* taken in order, those of the first half of the range before those of the
\* second
LZCompressFrom(text, lo, hi, st) ==
  IF lo > hi THEN st
  ELSE IF lo = hi THEN LZStep(st, text[lo])
  ELSE CHOOSE done \in {LZCompressFrom(text, ((lo + hi) \div 2) + 1, hi, half) :
                          half \in {LZCompressFrom(text, lo, (lo + hi) \div 2, st)}} :
         TRUE

\* the end of _compress: the code for the last phrase, then end of stream
LZFlush(st) ==
  (IF st.w # <<>> THEN LZEmit(st).out ELSE st.out) \o <<EndOfStream>>

\* LZString.compressToEncodedURIComponent(input)
compressToEncodedURIComponent(input) ==
  IF IsNullish(input) THEN Str("")
  ELSE Enc(LZFlush(LZCompressFrom(input.txt, 1, Len(input.txt),
             [dict |-> <<>>, toCreate |-> <<>>, w |-> <<>>, out |-> <<>>])))

RECURSIVE LZDecompressFrom(_, _, _, _, _)
\* the loop of _decompress: null for a code that is not in the dictionary,
\* the empty string for a stream that ends before its end-of-stream symbol
LZDecompressFrom(syms, i, dict, w, result) ==
  IF i > Len(syms) THEN Str("")
  ELSE IF syms[i].c = 2 THEN Txt(result)
  ELSE LET isLit == syms[i].c = 0
           dict1 == IF isLit THEN Append(dict, <<syms[i].ch>>) ELSE dict
           c == IF isLit THEN Len(dict1) + 2 ELSE syms[i].c
           dictSize == Len(dict1) + 3
       IN IF c >= 3 /\ c < dictSize
          THEN LET entry == dict1[c - 2]
               IN LZDecompressFrom(syms, i + 1, Append(dict1, Append(w, entry[1])),
                                   entry, result \o entry)
          ELSE IF c = dictSize
          THEN LET entry == Append(w, w[1])
               IN LZDecompressFrom(syms, i + 1, Append(dict1, Append(w, entry[1])),
                                   entry, result \o entry)
          ELSE Null

\* input == "" for an input that is not a string: 0, false and [] are
\* loosely equal to the empty string
LooselyEmpty(input) ==
  \/ input.t = "number" /\ input.n = 0
  \/ input.t = "boolean" /\ ~input.b
  \/ input.t = "array" /\ Len(input.a) = 0

\* LZString.decompressFromEncodedURIComponent(input), for input that is
\* null, undefined, a string or loosely equal to ""
decompressFromEncodedURIComponent(input) ==
  IF IsNullish(input) THEN Str("")
  ELSE IF IsEmptyString(input) \/ LooselyEmpty(input) THEN Null
  ELSE IF "enc" \notin DOMAIN input THEN Null
  ELSE LET syms == input.enc IN
       IF syms[1].c = 2 THEN Str("")
       ELSE IF syms[1].c # 0 THEN Null
       ELSE LZDecompressFrom(syms, 2, <<<<syms[1].ch>>>>, <<syms[1].ch>>,
                             <<syms[1].ch>>)

(***************************************************************************)
(* compression.ts                                                          *)
(***************************************************************************)
\* compress(logic): the wrapper { compressedValue, type }, as a JSON text
compress(logic) ==
  LET json == JSONstringify(logic)
      compressed == compressToEncodedURIComponent(json)
  IN JSONstringify(Obj([compressedValue |-> compressed,
                        type |-> Str("compressedValue")]))

\* decompress with the emptiness test applied to the parsed value instead
\* of the decoded text
decompressTestsParsedValue(compressedWrapper) ==
  LET wrapper == JSONparse(compressedWrapper) IN
  IF wrapper.thrown THEN wrapper
  ELSE IF IsNullish(wrapper.val)
  THEN Thrown("TypeError", "Cannot read properties of null")
  ELSE LET json == decompressFromEncodedURIComponent(
                     Get(wrapper.val, "compressedValue"))
           parsed == JSONparse(json)
       IN IF parsed.thrown \/ Truthy(parsed.val) THEN parsed
          ELSE Thrown("Error", "Failed to decompress - invalid compressed value")

\* decompress without the test of the decoded text: JSON.parse(null) is
\* null, JSON.parse("") throws
decompressUnguarded(compressedWrapper) ==
  LET wrapper == JSONparse(compressedWrapper) IN
  IF wrapper.thrown THEN wrapper
  ELSE IF IsNullish(wrapper.val)
  THEN Thrown("TypeError", "Cannot read properties of null")
  ELSE LET compressedValue == Get(wrapper.val, "compressedValue") IN
       IF ~IsNullish(compressedValue) /\ ~IsString(compressedValue)
          /\ ~LooselyEmpty(compressedValue)
       THEN Thrown("TypeError", "input.replace is not a function")
       ELSE LET json == decompressFromEncodedURIComponent(compressedValue) IN
            IF json = Null THEN Returned(Null) ELSE JSONparse(json)

\* decompress(compressedWrapper)
decompress(compressedWrapper) ==
  LET wrapper == JSONparse(compressedWrapper) IN
  IF wrapper.thrown THEN wrapper
  ELSE IF IsNullish(wrapper.val)
  THEN Thrown("TypeError", "Cannot read properties of null")
  ELSE LET compressedValue == Get(wrapper.val, "compressedValue") IN
       IF ~IsNullish(compressedValue) /\ ~IsString(compressedValue)
          /\ ~LooselyEmpty(compressedValue)
       THEN Thrown("TypeError", "input.replace is not a function")
       ELSE LET json == decompressFromEncodedURIComponent(compressedValue) IN
            IF ~Truthy(json)
            THEN Thrown("Error", "Failed to decompress - invalid compressed value")
            ELSE JSONparse(json)

(***************************************************************************)
(* templates/loader.ts: the filter builders                                *)
(***************************************************************************)
DEFAULT_MACRO ==
  Obj([function |-> Str("VALUE"), inputType |-> Str("ALL_TYPES"),
       outputType |-> Str("ALL_TYPES")])

\* the objects templates/loader.ts creates when it is loaded and keeps for
\* all calls: the one DEFAULT_MACRO object
InitialHeap == [DEFAULT_MACRO |-> DEFAULT_MACRO]

\* the column reference shared by every columnFilterRule
ColumnOf(objectTypeId, propertyId) ==
  Obj([objectProperty |-> Obj([objectTypeId |-> objectTypeId,
                               propertyTypeId |-> propertyId]),
       type |-> Str("objectProperty")])

\* buildStringEqualsFilter that writes the default for caseSensitive whatever
\* flag it is given
buildStringEqualsFilterDropsFlag(objectTypeId, propertyId, value, caseSensitive) ==
  Obj([columnFilterRule |->
         Obj([column |-> ColumnOf(objectTypeId, propertyId),
              filter |->
                Obj([stringColumnFilter |->
                       Obj([type |-> Str("EQUALS"),
                            caseSensitive |-> Bool(FALSE),
                            ignoreWhitespace |-> Bool(FALSE),
                            values |-> Arr(<<value>>),
                            macro |-> DEFAULT_MACRO]),
                     type |-> Str("stringColumnFilter")])]),
       type |-> Str("columnFilterRule")])

buildStringEqualsFilter(objectTypeId, propertyId, value, caseSensitive) ==
  Obj([columnFilterRule |->
         Obj([column |-> ColumnOf(objectTypeId, propertyId),
              filter |->
                Obj([stringColumnFilter |->
                       Obj([type |-> Str("EQUALS"),
                            caseSensitive |->
                              IF caseSensitive = Undef THEN Bool(FALSE)
                              ELSE caseSensitive,
                            ignoreWhitespace |-> Bool(FALSE),
                            values |-> Arr(<<value>>),
                            macro |-> DEFAULT_MACRO]),
                     type |-> Str("stringColumnFilter")])]),
       type |-> Str("columnFilterRule")])

\* buildStringOrFilter that returns a single value's filter unwrapped
buildStringOrFilterUnwrapsSingle(objectTypeId, propertyId, values, caseSensitive) ==
  LET filters == [i \in 1..Len(values.a) |->
                    buildStringEqualsFilter(objectTypeId, propertyId,
                                            values.a[i], caseSensitive)]
  IN IF Len(filters) = 1 THEN filters[1]
     ELSE Obj([orFilterRule |-> Obj([filters |-> Arr(filters)]),
               type |-> Str("orFilterRule")])

\* values is an array
buildStringOrFilter(objectTypeId, propertyId, values, caseSensitive) ==
  LET filters == [i \in 1..Len(values.a) |->
                    buildStringEqualsFilter(objectTypeId, propertyId,
                                            values.a[i], caseSensitive)]
  IN Obj([orFilterRule |-> Obj([filters |-> Arr(filters)]),
          type |-> Str("orFilterRule")])

buildNumericFilter(objectTypeId, propertyId, comparison, value) ==
  Obj([columnFilterRule |->
         Obj([column |-> ColumnOf(objectTypeId, propertyId),
              filter |->
                Obj([numericColumnFilter |->
                       Obj([type |-> Str(comparison),
                            values |-> Arr(<<value>>),
                            macro |-> DEFAULT_MACRO]),
                     type |-> Str("numericColumnFilter")])]),
       type |-> Str("columnFilterRule")])

\* buildNumericRangeFilter that pushes the max bound before the min bound
buildNumericRangeFilterMaxFirst(objectTypeId, propertyId, min, max) ==
  LET f1 == IF max # Undef
            THEN <<buildNumericFilter(objectTypeId, propertyId,
                                      "LESS_THAN_OR_EQUAL", max)>>
            ELSE <<>>
      filters == IF min # Undef
                 THEN Append(f1, buildNumericFilter(objectTypeId, propertyId,
                                                    "GREATER_THAN_OR_EQUAL", min))
                 ELSE f1
  IN IF Len(filters) = 0
     THEN Thrown("Error", "Numeric range filter requires at least min or max")
     ELSE IF Len(filters) = 1 THEN Returned(filters[1])
     ELSE Returned(Obj([andFilterRule |-> Obj([filters |-> Arr(filters)]),
                        type |-> Str("andFilterRule")]))

\* returns the filter, or throws when neither bound is given
buildNumericRangeFilter(objectTypeId, propertyId, min, max) ==
  LET f1 == IF min # Undef
            THEN <<buildNumericFilter(objectTypeId, propertyId,
                                      "GREATER_THAN_OR_EQUAL", min)>>
            ELSE <<>>
      filters == IF max # Undef
                 THEN Append(f1, buildNumericFilter(objectTypeId, propertyId,
                                                    "LESS_THAN_OR_EQUAL", max))
                 ELSE f1
  IN IF Len(filters) = 0
     THEN Thrown("Error", "Numeric range filter requires at least min or max")
     ELSE IF Len(filters) = 1 THEN Returned(filters[1])
     ELSE Returned(Obj([andFilterRule |-> Obj([filters |-> Arr(filters)]),
                        type |-> Str("andFilterRule")]))

buildNullFilter(objectTypeId, propertyId, isNull) ==
  Obj([columnFilterRule |->
         Obj([column |-> ColumnOf(objectTypeId, propertyId),
              filter |->
                Obj([nullColumnFilter |->
                       Obj([type |-> Str(IF Truthy(isNull) THEN "NULL"
                                         ELSE "NOT_NULL")]),
                     type |-> Str("nullColumnFilter")])]),
       type |-> Str("columnFilterRule")])

\* a wrapper that leaves the effect out
wrapFilterWithoutEffect(filter, workflow) ==
  Obj([namedStrategies |-> EmptyObj,
       strategyComponents |-> Null,
       grammarVersion |-> Str("V1"),
       strategy |->
         Obj([filterNode |->
                Obj([nodeInput |->
                       Obj([source |-> Obj([objectTypeId |-> workflow.objectType.id,
                                            type |-> Str("objectTypeId")]),
                            type |-> Str("source")]),
                     filter |-> filter,
                     joinFilterInputs |-> EmptyObj]),
              type |-> Str("filterNode")]),
       workflowRid |-> workflow.workflowRid])

\* workflow is the config's WorkflowDefinition
wrapFilterAsRuleLogic(filter, workflow) ==
  Obj([namedStrategies |-> EmptyObj,
       strategyComponents |-> Null,
       grammarVersion |-> Str("V1"),
       strategy |->
         Obj([filterNode |->
                Obj([nodeInput |->
                       Obj([source |-> Obj([objectTypeId |-> workflow.objectType.id,
                                            type |-> Str("objectTypeId")]),
                            type |-> Str("source")]),
                     filter |-> filter,
                     joinFilterInputs |-> EmptyObj]),
              type |-> Str("filterNode")]),
       workflowRid |-> workflow.workflowRid,
       effect |->
         Obj([v2 |-> Obj([outputAndVersion |->
                            Obj([outputId |-> workflow.output.id,
                                 outputVersion |-> workflow.output.version,
                                 workflowRid |-> workflow.workflowRid]),
                          parameterValues |-> EmptyObj]),
              type |-> Str("v2")])])

\* x ?? d
Coalesce(x, d) == IF IsNullish(x) THEN d ELSE x

\* a failure that still carries a logic built from what was supplied
BuildFailureWithLogic(errors) ==
  Obj([success |-> Bool(FALSE), errors |-> Arr(errors), logic |-> EmptyObj])

BuildFailure(errors) == Obj([success |-> Bool(FALSE), errors |-> Arr(errors)])
BuildSuccess(filter, workflow) ==
  Obj([success |-> Bool(TRUE), logic |-> wrapFilterAsRuleLogic(filter, workflow)])

\* a push that is skipped once an error has been collected
PushIfNoneYet(errors, cond, msg) ==
  IF cond /\ Len(errors) = 0 THEN Append(errors, msg) ELSE errors

\* errors.push(msg) when cond
PushIf(errors, cond, msg) == IF cond THEN Append(errors, msg) ELSE errors

MissingPropertyId == Str("Missing required parameter: propertyId")

\* buildFromTemplate(templateName, params, workflow): the BuildResult
buildFromTemplate(templateName, params, workflow) ==
  LET objectTypeId == workflow.objectType.id
      propertyId == Get(params, "propertyId")
      e1 == PushIf(<<>>, ~Truthy(propertyId), MissingPropertyId)
  IN
  IF templateName \in {"string-equals", "string-or", "numeric-range", "null-check"}
     /\ IsNullish(params)
  THEN \* params.propertyId throws inside the try block
       BuildFailure(<<Str("Cannot read properties of undefined")>>)
  ELSE
  CASE templateName = "string-equals" ->
         LET value == Get(params, "value")
             caseSensitive == Coalesce(Get(params, "caseSensitive"), Bool(FALSE))
             errors == PushIf(e1, ~Truthy(value),
                              Str("Missing required parameter: value"))
         IN IF Len(errors) > 0 THEN BuildFailure(errors)
            ELSE BuildSuccess(buildStringEqualsFilter(objectTypeId, propertyId,
                                                      value, caseSensitive),
                              workflow)
    [] templateName = "string-or" ->
         LET values == Get(params, "values")
             caseSensitive == Coalesce(Get(params, "caseSensitive"), Bool(FALSE))
             errors == PushIf(e1,
                              ~Truthy(values) \/ ~IsArray(values)
                                \/ Len(values.a) = 0,
                              Str("Missing or empty required parameter: values"))
         IN IF Len(errors) > 0 THEN BuildFailure(errors)
            ELSE BuildSuccess(buildStringOrFilter(objectTypeId, propertyId,
                                                  values, caseSensitive),
                              workflow)
    [] templateName = "numeric-range" ->
         LET min == Get(params, "min")
             max == Get(params, "max")
             errors == PushIf(e1, min = Undef /\ max = Undef,
                              Str("At least one of min or max is required"))
             built == buildNumericRangeFilter(objectTypeId, propertyId, min, max)
         IN IF Len(errors) > 0 THEN BuildFailure(errors)
            ELSE IF built.thrown THEN BuildFailure(<<Str(built.message)>>)
            ELSE BuildSuccess(built.val, workflow)
    [] templateName = "null-check" ->
         LET isNull == Coalesce(Get(params, "isNull"), Bool(TRUE))
         IN IF Len(e1) > 0 THEN BuildFailure(e1)
            ELSE BuildSuccess(buildNullFilter(objectTypeId, propertyId, isNull),
                              workflow)
    [] OTHER -> BuildFailure(<<Fmt(<<"Unknown template: ", templateName>>)>>)

(***************************************************************************)
(* validation/schema.ts: the structure pass                                *)
(***************************************************************************)
\* xs.join(', ') of strings, as the pieces of the joined text
JoinText(xs) ==
  [i \in 1..(IF Len(xs) = 0 THEN 0 ELSE 2 * Len(xs) - 1) |->
     IF i % 2 = 1 THEN ToText(xs[(i + 1) \div 2]) ELSE ", "]

\* the errors of the strategy block
StrategyErrors(l, validationConfig) ==
  LET strategy == Get(l, "strategy")
      strategyType == Get(strategy, "type")
      filterNode == Get(strategy, "filterNode")
      e1 == PushIf(<<>>,
                   ~Includes(validationConfig.supportedStrategyTypes, strategyType),
                   Fmt(<<"strategy.type", " must be one of [">>
                       \o JoinText(validationConfig.supportedStrategyTypes)
                       \o <<"], got: ", ToText(strategyType)>>))
      e2 == PushIf(e1,
                   Truthy(strategyType)
                     /\ ~Truthy(Get(strategy, ToText(strategyType))),
                   Fmt(<<"strategy.", ToText(strategyType),
                         " is required when type is '", ToText(strategyType),
                         "'">>))
  IN IF ~Truthy(strategy) \/ ~TypeofObject(strategy)
     THEN <<Str("strategy is required and must be an object")>>
     ELSE PushIf(e2,
                 strategyType = Str("filterNode") /\ Truthy(filterNode)
                   /\ HasKey(filterNode, "type"),
                 Str("filterNode should NOT have a type field (type goes in strategy)"))

\* the errors of the effect block
EffectErrors(l) ==
  LET effect == Get(l, "effect")
      v2 == Get(effect, "v2")
      e1 == PushIf(<<>>, Get(effect, "type") # Str("v2"),
                   Fmt(<<"effect.type", " must be 'v2', got: ",
                         ToText(Get(effect, "type"))>>))
  IN IF ~Truthy(effect) \/ ~TypeofObject(effect)
     THEN <<Str("effect is required and must be an object")>>
     ELSE IF ~Truthy(v2) \/ ~TypeofObject(v2)
     THEN Append(e1, Str("effect.v2 is required"))
     ELSE PushIf(e1, ~Truthy(Get(v2, "outputAndVersion")),
                 Str("effect.v2.outputAndVersion is required"))

\* 'type' in filterNode throws a TypeError when filterNode is a primitive
InOperatorThrows(l) ==
  LET strategy == Get(l, "strategy")
      filterNode == Get(strategy, "filterNode")
  IN /\ Truthy(strategy) /\ TypeofObject(strategy)
     /\ Get(strategy, "type") = Str("filterNode")
     /\ Truthy(filterNode)
     /\ filterNode.t \notin {"object", "array"}

\* validateRuleLogic(logic, validationConfig)
validateRuleLogic(logic, validationConfig) ==
  IF ~Truthy(logic) \/ ~TypeofObject(logic)
  THEN Returned([valid |-> FALSE, errors |-> <<Str("Root must be an object")>>])
  ELSE IF InOperatorThrows(logic)
  THEN Thrown("TypeError", "Cannot use 'in' operator to search for 'type'")
  ELSE
  LET l == logic
      e1 == PushIf(<<>>,
                   Get(l, "grammarVersion") # validationConfig.grammarVersion,
                   Fmt(<<"grammarVersion", " must be '",
                         ToText(validationConfig.grammarVersion), "', got: ",
                         ToText(Get(l, "grammarVersion"))>>))
      e2 == PushIf(e1,
                   ~Truthy(Get(l, "workflowRid")) \/ ~IsString(Get(l, "workflowRid")),
                   Str("workflowRid is required and must be a string"))
      errors == e2 \o StrategyErrors(l, validationConfig) \o EffectErrors(l)
  IN Returned([valid |-> Len(errors) = 0, errors |-> errors])

\* extractWorkflowRid(logic)
extractWorkflowRid(logic) ==
  IF ~Truthy(logic) \/ ~TypeofObject(logic) THEN Null
  ELSE IF Truthy(Get(logic, "workflowRid")) THEN Get(logic, "workflowRid")
  ELSE Null

RECURSIVE FirstObjectTypeId(_, _)
\* the loop over nodeTypes of extractObjectTypeId
FirstObjectTypeId(strategy, nodeTypes) ==
  IF nodeTypes = <<>> THEN Null
  ELSE LET node == Get(strategy, Head(nodeTypes))
           source == OptGet(OptGet(node, "nodeInput"), "source")
       IN IF Truthy(OptGet(source, "objectTypeId"))
          THEN Get(source, "objectTypeId")
          ELSE FirstObjectTypeId(strategy, Tail(nodeTypes))

\* extractObjectTypeId(logic)
extractObjectTypeId(logic) ==
  IF ~Truthy(logic) \/ ~TypeofObject(logic) THEN Null
  ELSE IF ~Truthy(Get(logic, "strategy")) THEN Null
  ELSE FirstObjectTypeId(Get(logic, "strategy"),
                         <<"filterNode", "windowNode", "aggregationNode">>)

(***************************************************************************)
(* validation/properties.ts: the property pass.  A Set<string> is the      *)
(* sequence of its members in insertion order, without repetition.         *)
(***************************************************************************)
\* an add that keeps repetitions
SetAddRepeats(set, x) == Append(set, x)

\* set.add(x)
SetAdd(set, x) == IF Includes(set, x) THEN set ELSE Append(set, x)

RECURSIVE SetAddAll(_, _)
\* xs.forEach(p => set.add(p))
SetAddAll(set, xs) ==
  IF xs = <<>> THEN set ELSE SetAddAll(SetAdd(set, Head(xs)), Tail(xs))

\* if (propId) properties.add(propId)
SetAddIfTruthy(set, x) == IF Truthy(x) THEN SetAdd(set, x) ELSE set

RECURSIVE extractPropertiesFromFilter(_)
RECURSIVE PropertiesOfSubFilters(_, _)
\* a loop over the sub-filters that stops after the first one
PropertiesOfFirstSubFilter(properties, filters) ==
  IF filters = <<>> THEN properties
  ELSE SetAddAll(properties, extractPropertiesFromFilter(Head(filters)))

\* for (const subFilter of filters) extractPropertiesFromFilter(subFilter).forEach(add)
PropertiesOfSubFilters(properties, filters) ==
  IF filters = <<>> THEN properties
  ELSE PropertiesOfSubFilters(
         SetAddAll(properties, extractPropertiesFromFilter(Head(filters))),
         Tail(filters))

\* the sub-filters of an orFilterRule or andFilterRule, when they are an array
SubFiltersOf(f, rule) ==
  IF Truthy(Get(f, rule)) /\ IsArray(Get(Get(f, rule), "filters"))
  THEN Get(Get(f, rule), "filters").a
  ELSE <<>>

\* extractPropertiesFromFilter(filter)
extractPropertiesFromFilter(filter) ==
  IF ~Truthy(filter) \/ ~TypeofObject(filter) THEN <<>>
  ELSE
  LET f == filter
      objProp == OptGet(Get(Get(f, "columnFilterRule"), "column"), "objectProperty")
      p1 == IF Truthy(Get(f, "columnFilterRule"))
            THEN SetAddIfTruthy(<<>>, OptGet(objProp, "propertyTypeId"))
            ELSE <<>>
      p2 == PropertiesOfSubFilters(p1, SubFiltersOf(f, "orFilterRule"))
      p3 == PropertiesOfSubFilters(p2, SubFiltersOf(f, "andFilterRule"))
  IN IF Truthy(Get(f, "notFilterRule"))
     THEN SetAddAll(p3, extractPropertiesFromFilter(
                          Get(Get(f, "notFilterRule"), "filter")))
     ELSE p3

\* extractPropertyFromColumn(column)
extractPropertyFromColumn(column) ==
  IF ~Truthy(column) \/ ~TypeofObject(column) THEN Null
  ELSE LET propId == OptGet(Get(column, "objectProperty"), "propertyTypeId")
       IN IF Truthy(propId) THEN propId ELSE Null

\* the elements of n[key] when it is an array, else none
ArrayAt(n, key) == IF IsArray(Get(n, key)) THEN Get(n, key).a ELSE <<>>

RECURSIVE PropertiesOfColumns(_, _, _, _)
\* for (const col of cols) { propId = extractPropertyFromColumn(<col>.a?.b) ... }
\* with a = "" for the column itself
PropertiesOfColumns(properties, cols, a, b) ==
  IF cols = <<>> THEN properties
  ELSE LET col == Head(cols)
           column == IF a = "" THEN col
                     ELSE IF b = "" THEN Get(col, a)
                     ELSE OptGet(Get(col, a), b)
       IN PropertiesOfColumns(
            SetAddIfTruthy(properties, extractPropertyFromColumn(column)),
            Tail(cols), a, b)

\* extractPropertiesFromWindowNode(node), when no property read throws
extractPropertiesFromWindowNode(node) ==
  IF ~Truthy(node) \/ ~TypeofObject(node) THEN <<>>
  ELSE PropertiesOfColumns(
         PropertiesOfColumns(<<>>, ArrayAt(node, "columnsToAdd"),
                             "columnDefinition", "column"),
         ArrayAt(node, "partitionBy"), "", "")

\* extractPropertiesFromAggregationNode(node), when no property read throws
extractPropertiesFromAggregationNode(node) ==
  IF ~Truthy(node) \/ ~TypeofObject(node) THEN <<>>
  ELSE PropertiesOfColumns(
         PropertiesOfColumns(<<>>, ArrayAt(node, "columnsToAdd"),
                             "columnDefinition", "aggregationColumn"),
         ArrayAt(node, "groupByColumns"), "column", "")

\* c.columnDefinition / c.column of a null or undefined element c throws
NullishColumns(node, keys) ==
  IF ~Truthy(node) \/ ~TypeofObject(node) THEN <<>>
  ELSE SelectSeq(ArrayAt(node, keys[1]) \o
                   (IF Len(keys) > 1 THEN ArrayAt(node, keys[2]) ELSE <<>>),
                 IsNullish)

\* Object.entries(x): the values, for an object or an array
EntryValues(x) ==
  CASE x.t = "object" -> [i \in 1..Len(SetToSeq(DOMAIN x.o)) |->
                            x.o[SetToSeq(DOMAIN x.o)[i]]]
    [] x.t = "array" -> x.a
    [] OTHER -> <<>>

RECURSIVE PropertiesOfParameterValues(_, _)
\* the loop over the entries of effect.v2.parameterValues
PropertiesOfParameterValues(properties, values) ==
  IF values = <<>> THEN properties
  ELSE LET v == Head(values)
           propId == extractPropertyFromColumn(Get(v, "column"))
       IN PropertiesOfParameterValues(
            IF OptGet(v, "type") = Str("column")
            THEN SetAddIfTruthy(properties, propId)
            ELSE properties,
            Tail(values))

\* the elements whose property read throws while extractAllProperties runs
ThrowingColumns(logic) ==
  IF ~Truthy(logic) \/ ~TypeofObject(logic) THEN <<>>
  ELSE LET strategy == Get(logic, "strategy")
       IN IF ~Truthy(strategy) THEN <<>>
          ELSE NullishColumns(Get(strategy, "windowNode"), <<"columnsToAdd">>)
               \o NullishColumns(Get(strategy, "aggregationNode"),
                                 <<"columnsToAdd", "groupByColumns">>)

\* a call of an extractor: the TypeError of the first property read that
\* throws, or the set collected
ExtractorCall(throwing, properties) ==
  IF throwing # <<>>
  THEN Thrown("TypeError", "Cannot read properties of " \o ToText(throwing[1]))
  ELSE Returned(properties)

\* what one node of the strategy adds: nothing when the node is falsy
FilterNodeProperties(strategy) ==
  IF Truthy(Get(strategy, "filterNode"))
  THEN extractPropertiesFromFilter(Get(Get(strategy, "filterNode"), "filter"))
  ELSE <<>>
WindowNodeProperties(strategy) ==
  IF Truthy(Get(strategy, "windowNode"))
  THEN extractPropertiesFromWindowNode(Get(strategy, "windowNode"))
  ELSE <<>>
AggregationNodeProperties(strategy) ==
  IF Truthy(Get(strategy, "aggregationNode"))
  THEN extractPropertiesFromAggregationNode(Get(strategy, "aggregationNode"))
  ELSE <<>>

\* the entries of effect.v2.parameterValues, when it is truthy
ParameterEntries(l) ==
  IF Truthy(OptGet(OptGet(Get(l, "effect"), "v2"), "parameterValues"))
  THEN EntryValues(OptGet(OptGet(Get(l, "effect"), "v2"), "parameterValues"))
  ELSE <<>>

\* extractAllProperties(logic), when no property read throws
extractAllProperties(logic) ==
  IF ~Truthy(logic) \/ ~TypeofObject(logic) THEN <<>>
  ELSE IF ~Truthy(Get(logic, "strategy")) THEN <<>>
  ELSE PropertiesOfParameterValues(
         SetAddAll(
           SetAddAll(
             SetAddAll(<<>>, FilterNodeProperties(Get(logic, "strategy"))),
             WindowNodeProperties(Get(logic, "strategy"))),
           AggregationNodeProperties(Get(logic, "strategy"))),
         ParameterEntries(logic))

\* the message of validateProperties for one undeclared property
PropertyError(prop, objectTypeConfig, validProperties) ==
  Fmt(<<"Property \"", ToText(prop), "\" ", "does not exist",
        " on object type \"", ToText(objectTypeConfig.id),
        "\". Valid properties: ">> \o JoinText(validProperties))

RECURSIVE PropertyErrors(_, _, _, _)
\* the loop of validateProperties over usedList
PropertyErrors(errors, usedList, objectTypeConfig, validProperties) ==
  IF usedList = <<>> THEN errors
  ELSE PropertyErrors(
         PushIf(errors, ~Includes(validProperties, Head(usedList)),
                PropertyError(Head(usedList), objectTypeConfig, validProperties)),
         Tail(usedList), objectTypeConfig, validProperties)

\* the result of validateProperties, from what the extractor did
PropertiesResult(throwing, usedList, objectTypeConfig, validProperties) ==
  IF throwing # <<>>
  THEN Thrown("TypeError", "Cannot read properties of " \o ToText(throwing[1]))
  ELSE LET errors == PropertyErrors(<<>>, usedList, objectTypeConfig,
                                    validProperties)
       IN Returned([valid |-> Len(errors) = 0,
                    errors |-> errors,
                    usedProperties |-> usedList,
                    validProperties |-> validProperties])

\* validateProperties(logic, objectTypeConfig)
validateProperties(logic, objectTypeConfig) ==
  PropertiesResult(ThrowingColumns(logic), extractAllProperties(logic),
                   objectTypeConfig,
                   [i \in 1..Len(objectTypeConfig.properties) |->
                      objectTypeConfig.properties[i].id])

(***************************************************************************)
(* validation/filters.ts: the filter pass.  The three extractors are the   *)
(* same traversal over a different key of columnFilterRule.filter.         *)
(***************************************************************************)
RECURSIVE extractFilterTypes(_, _)
RECURSIVE TypesOfSubFilters(_, _, _)
\* for (const subFilter of filters) extract...FilterTypes(subFilter).forEach(add)
TypesOfSubFilters(types, filters, kind) ==
  IF filters = <<>> THEN types
  ELSE TypesOfSubFilters(
         SetAddAll(types, extractFilterTypes(Head(filters), kind)),
         Tail(filters), kind)

\* extractStringFilterTypes / extractNumericFilterTypes / extractNullFilterTypes
extractFilterTypes(filter, kind) ==
  IF ~Truthy(filter) \/ ~TypeofObject(filter) THEN <<>>
  ELSE
  LET f == filter
      columnFilter == Get(Get(f, "columnFilterRule"), "filter")
      kindFilter == OptGet(columnFilter, kind)
      t1 == IF Truthy(Get(f, "columnFilterRule"))
            THEN SetAddIfTruthy(<<>>, OptGet(kindFilter, "type"))
            ELSE <<>>
      t2 == TypesOfSubFilters(t1, SubFiltersOf(f, "orFilterRule"), kind)
      t3 == TypesOfSubFilters(t2, SubFiltersOf(f, "andFilterRule"), kind)
  IN IF Truthy(Get(f, "notFilterRule"))
     THEN SetAddAll(t3, extractFilterTypes(
                          Get(Get(f, "notFilterRule"), "filter"), kind))
     ELSE t3

extractStringFilterTypes(filter) == extractFilterTypes(filter, "stringColumnFilter")
extractNumericFilterTypes(filter) == extractFilterTypes(filter, "numericColumnFilter")
extractNullFilterTypes(filter) == extractFilterTypes(filter, "nullColumnFilter")

\* the two messages of the string loop
StringFilterError(filterType, validationConfig) ==
  Fmt(<<"String", " filter type \"", ToText(filterType), "\" is ", "not supported",
        ". Use one of: ">> \o JoinText(validationConfig.supportedStringFilters))
StringFilterWarning(filterType) ==
  Fmt(<<"String", " filter type \"", ToText(filterType),
        "\" is not in the list of tested filters. ",
        "It may not render correctly in the UI.">>)
\* the message of the numeric and the null loop
UntestedFilterWarning(kindName, filterType) ==
  Fmt(<<kindName, " filter type \"", ToText(filterType),
        "\" is not in the list of tested filters.">>)

\* the string loop reports an unsupported operator also when it is supported
StringFilterIssuesSupportedFirst(stringTypes, validationConfig) ==
  LET Issue(i) ==
        IF Includes(validationConfig.supportedStringFilters, stringTypes[i])
        THEN "none"
        ELSE IF Includes(validationConfig.unsupportedStringFilters, stringTypes[i])
        THEN "error"
        ELSE "warning"
  IN [i \in 1..Len(stringTypes) |-> Issue(i)]

\* the string loop: for each operator, what the loop pushes
StringFilterIssues(stringTypes, validationConfig) ==
  LET Issue(i) ==
        IF Includes(validationConfig.unsupportedStringFilters, stringTypes[i])
        THEN "error"
        ELSE IF ~Includes(validationConfig.supportedStringFilters, stringTypes[i])
        THEN "warning"
        ELSE "none"
  IN [i \in 1..Len(stringTypes) |-> Issue(i)]

\* the numeric and the null loop guarded by nothing
UntestedFiltersUnguarded(types, supported) ==
  SelectSeq(types, LAMBDA t : ~Includes(supported, t))

\* the numeric and the null loop: the operators warned about
UntestedFilters(types, supported) ==
  IF Len(supported) # 0
  THEN SelectSeq(types, LAMBDA t : ~Includes(supported, t))
  ELSE <<>>

\* f(xs[1]), f(xs[2]), ...
Map(xs, f(_)) == [i \in 1..Len(xs) |-> f(xs[i])]

\* the result of validateFilterTypes, from the operators used
FilterTypesResult(stringTypes, numericTypes, nullTypes, issues, validationConfig) ==
  LET Indices(what) == SelectSeq([i \in 1..Len(issues) |-> i],
                                 LAMBDA i : issues[i] = what)
      errors == Map(Indices("error"),
                    LAMBDA i : StringFilterError(stringTypes[i], validationConfig))
      warnings ==
        Map(Indices("warning"), LAMBDA i : StringFilterWarning(stringTypes[i]))
        \o Map(UntestedFilters(numericTypes,
                               validationConfig.supportedNumericFilters),
               LAMBDA t : UntestedFilterWarning("Numeric", t))
        \o Map(UntestedFilters(nullTypes, validationConfig.supportedNullFilters),
               LAMBDA t : UntestedFilterWarning("Null", t))
  IN [valid |-> Len(errors) = 0,
      errors |-> errors,
      warnings |-> warnings,
      usedFilters |-> [string |-> stringTypes, numeric |-> numericTypes,
                       null |-> nullTypes]]

\* logic?.strategy?.filterNode?.filter
FilterIn(logic) ==
  OptGet(OptGet(OptGet(logic, "strategy"), "filterNode"), "filter")

\* validateFilterTypes(logic, validationConfig)
validateFilterTypes(logic, validationConfig) ==
  FilterTypesResult(
    extractStringFilterTypes(FilterIn(logic)),
    extractNumericFilterTypes(FilterIn(logic)),
    extractNullFilterTypes(FilterIn(logic)),
    StringFilterIssues(extractStringFilterTypes(FilterIn(logic)), validationConfig),
    validationConfig)

(***************************************************************************)
(* The full validators: validateProposal (index.ts) and                    *)
(* performFullValidation (proposal-cli-v2.ts).  A resolved config is the   *)
(* record [workflow, validation].                                          *)
(***************************************************************************)
\* the result both validators start from
EmptyValidation ==
  [valid |-> TRUE, structureErrors |-> <<>>, propertyErrors |-> <<>>,
   filterErrors |-> <<>>, filterWarnings |-> <<>>]

\* a validator whose warnings make the result invalid
MergePassesWarningsInvalidate(result, propResult, filterResult) ==
  IF propResult.thrown THEN propResult
  ELSE Returned([result EXCEPT
         !.propertyErrors = propResult.val.errors,
         !.filterErrors = filterResult.errors,
         !.filterWarnings = filterResult.warnings,
         !.valid = result.valid /\ propResult.val.valid /\ filterResult.valid
                   /\ Len(filterResult.warnings) = 0])

\* what the validators do with the results of the property and filter passes
MergePasses(result, propResult, filterResult) ==
  IF propResult.thrown THEN propResult
  ELSE Returned([result EXCEPT
         !.propertyErrors = propResult.val.errors,
         !.filterErrors = filterResult.errors,
         !.filterWarnings = filterResult.warnings,
         !.valid = result.valid /\ propResult.val.valid /\ filterResult.valid])

\* the property pass and the filter pass, run on a result of the structure pass
LaterPasses(result, logic, config) ==
  MergePasses(result,
              validateProperties(logic, config.workflow.objectType),
              validateFilterTypes(logic, config.validation))

\* a validator that goes on after a failed structure pass
ReturnsEarlyNever(structureResult) == FALSE

\* if (!structureResult.valid) { result.valid = false; return result; }
ReturnsEarly(structureResult) == ~structureResult.valid

\* what the validators do with the result of the structure pass
AfterStructure(structureResult, logic, config, mismatchErrors) ==
  IF structureResult.thrown THEN structureResult
  ELSE IF ReturnsEarly(structureResult.val)
  THEN Returned([EmptyValidation EXCEPT
                   !.structureErrors = structureResult.val.errors,
                   !.valid = FALSE])
  ELSE LaterPasses([EmptyValidation EXCEPT
                      !.structureErrors = structureResult.val.errors \o mismatchErrors,
                      !.valid = structureResult.val.valid /\ mismatchErrors = <<>>],
                   logic, config)

\* the structure pass of both validators, and what follows it
StructurePass(logic, config, mismatchErrors) ==
  AfterStructure(validateRuleLogic(logic, config.validation),
                 logic, config, mismatchErrors)

\* the logic validateProposal validates, or the errors it returns at once
LogicOf(proposal, config) ==
  LET buildResult == buildFromTemplate(ToText(Get(proposal, "template")),
                                       Get(proposal, "params"), config.workflow)
  IN IF Truthy(Get(proposal, "template")) /\ Truthy(Get(proposal, "params"))
     THEN IF ~Truthy(Get(buildResult, "success")) \/ ~Truthy(Get(buildResult, "logic"))
          THEN [errors |-> IF Truthy(Get(buildResult, "errors"))
                           THEN Get(buildResult, "errors").a
                           ELSE <<Str("Template build failed")>>]
          ELSE [logic |-> Get(buildResult, "logic")]
     ELSE IF Truthy(Get(proposal, "logic"))
     THEN [logic |-> Get(proposal, "logic")]
     ELSE [errors |-> <<Str("Either template+params or logic must be provided")>>]

\* validateProposal(proposal, config)
validateProposal(proposal, config) ==
  LET source == LogicOf(proposal, config)
  IN IF "errors" \in DOMAIN source
     THEN Returned([EmptyValidation EXCEPT !.valid = FALSE,
                                           !.structureErrors = source.errors])
     ELSE StructurePass(source.logic, config, <<>>)

\* the workflowRid and objectTypeId checks of performFullValidation
MismatchErrors(logic, config) ==
  LET actualRid == extractWorkflowRid(logic)
      actualObjType == extractObjectTypeId(logic)
      e1 == PushIf(<<>>,
                   Truthy(actualRid) /\ actualRid # config.workflow.workflowRid,
                   Fmt(<<"workflowRid mismatch", ": config expects '",
                         ToText(config.workflow.workflowRid), "', got '",
                         ToText(actualRid), "'">>))
  IN PushIf(e1,
            Truthy(actualObjType) /\ actualObjType # config.workflow.objectType.id,
            Fmt(<<"objectTypeId mismatch", ": config expects '",
                  ToText(config.workflow.objectType.id), "', got '",
                  ToText(actualObjType), "'">>))

\* performFullValidation(logic, config)
performFullValidation(logic, config) ==
  StructurePass(logic, config, MismatchErrors(logic, config))

(***************************************************************************)
(* The JSON values a caller compresses: the atoms, arrays and objects of   *)
(* atoms, and arrays and objects of those.                                 *)
(***************************************************************************)
MaxLen == 2

ArraysOver(S) == {Arr(s) : s \in UNION {[1..n -> S] : n \in 0..MaxLen}}
ObjectsOver(K, S) == {Obj(f) : f \in UNION {[D -> S] : D \in SUBSET K}}

Atoms == {Null, Bool(TRUE), Bool(FALSE), Num(0), Num(1), Str(""), Str("a")}
InnerAtoms == {Null, Bool(FALSE), Num(1), Str("a")}
InnerContainers ==
  {Arr(<<>>), EmptyObj, Arr(<<Num(1), Num(1)>>), Obj([key |-> Null]),
   Arr(<<Arr(<<>>)>>), Null}
JsonValues ==
  Atoms \cup ArraysOver(InnerAtoms) \cup ObjectsOver({"key", "a"}, InnerAtoms)
        \cup ArraysOver(InnerContainers)
        \cup ObjectsOver({"key", "nested"}, InnerContainers)

InitCompress ==
  /\ pc = "start"
  /\ heap = InitialHeap
  /\ sent = <<>>
  /\ now = 0
  /\ arg \in JsonValues
  /\ ret = Undef

\* const compressed = compress(original)
Compress ==
  /\ pc = "start"
  /\ pc' = "compressed"
  /\ ret' = compress(arg)
  /\ UNCHANGED <<arg, heap, outside>>

\* const decompressed = decompress(compressed)
Decompress ==
  /\ pc = "compressed"
  /\ pc' = "decompressed"
  /\ ret' = decompress(ret)
  /\ UNCHANGED <<arg, heap, outside>>

NextCompress == Compress \/ Decompress

SpecCompress == InitCompress /\ [][NextCompress]_vars

\* C1: decompress(compress(v)) returns a value deep-equal to v, for every
\* JSON value v.
C1_RoundTrip == pc = "decompressed" => ret = Returned(arg)

\* an object holding an explicit null and a nested object has been through
\* compress and decompress
C1_Witness ==
  /\ pc = "decompressed"
  /\ arg = Obj([key |-> Null, nested |-> Obj([key |-> Null])])
  /\ ~ret.thrown

(***************************************************************************)
(* The calls of the template builder.  The workflow is the one of the      *)
(* test configuration; the parameters are every combination of present     *)
(* and absent fields of each template, with empty and non-empty values.    *)
(***************************************************************************)
Workflow ==
  [name |-> Str("Test Workflow"),
   workflowRid |-> Str("ri.taurus.main.workflow.test"),
   objectType |->
     [id |-> Str("test-object-type"),
      properties |-> <<[id |-> Str("property_a"), type |-> "string"],
                       [id |-> Str("property_b"), type |-> "number"],
                       [id |-> Str("property_c"), type |-> "boolean"]>>],
   output |-> [id |-> Str("test-output"), version |-> Str("1.0.0")]]

MaxValues == 2

\* a field that is absent, or present with one of vals
OptField(k, vals) == {<<>>} \cup {(k :> v) : v \in vals}
ParamsOf(F1, F2, F3) == {Obj(f1 @@ f2 @@ f3) : f1 \in F1, f2 \in F2, f3 \in F3}

PropertyIdField ==
  OptField("propertyId", {Str(""), Str("property_a"), Str("unknown_property")})
ValuesChoices ==
  {Arr(vs) : vs \in UNION {[1..n -> {Str("a"), Str("b")}] : n \in 0..MaxValues}}
    \cup {Str("a")}

BuildArgs ==
  {[templateName |-> "string-equals", params |-> ps] :
     ps \in ParamsOf(PropertyIdField,
                     OptField("value", {Str(""), Str("test")}),
                     OptField("caseSensitive", {Bool(TRUE), Bool(FALSE)}))}
  \cup
  {[templateName |-> "string-or", params |-> ps] :
     ps \in ParamsOf(PropertyIdField,
                     OptField("values", ValuesChoices),
                     OptField("caseSensitive", {Bool(TRUE)}))}
  \cup
  {[templateName |-> "numeric-range", params |-> ps] :
     ps \in ParamsOf(PropertyIdField,
                     OptField("min", {Num(0), Num(10)}),
                     OptField("max", {Num(0), Num(100)}))}
  \cup
  {[templateName |-> "null-check", params |-> ps] :
     ps \in ParamsOf(PropertyIdField,
                     OptField("isNull", {Bool(TRUE), Bool(FALSE)}),
                     {<<>>})}
  \cup
  {[templateName |-> tn, params |-> ps] :
     tn \in {"string-equals", "string-or", "numeric-range", "null-check",
             "unknown-template"},
     ps \in {Null, EmptyObj}}

InitBuild ==
  /\ pc = "start"
  /\ heap = InitialHeap
  /\ sent = <<>>
  /\ now = 0
  /\ arg \in BuildArgs
  /\ ret = Undef

\* buildFromTemplate(templateName, params, workflow)
BuildFromTemplate ==
  /\ pc = "start"
  /\ pc' = "built"
  /\ ret' = buildFromTemplate(arg.templateName, arg.params, Workflow)
  /\ UNCHANGED <<arg, heap, outside>>

\* buildNumericRangeFilter(objectTypeId, propertyId, min, max), called directly
BuildNumericRangeFilter ==
  /\ pc = "start"
  /\ arg.templateName = "numeric-range"
  /\ arg.params # Null
  /\ pc' = "numericRange"
  /\ ret' = buildNumericRangeFilter(Workflow.objectType.id,
                                    Get(arg.params, "propertyId"),
                                    Get(arg.params, "min"),
                                    Get(arg.params, "max"))
  /\ UNCHANGED <<arg, heap, outside>>

\* buildStringOrFilter(objectTypeId, propertyId, values, caseSensitive),
\* called directly with an array of values
BuildStringOrFilter ==
  /\ pc = "start"
  /\ arg.templateName = "string-or"
  /\ IsArray(Get(arg.params, "values"))
  /\ pc' = "stringOr"
  /\ ret' = buildStringOrFilter(Workflow.objectType.id,
                                Get(arg.params, "propertyId"),
                                Get(arg.params, "values"),
                                Get(arg.params, "caseSensitive"))
  /\ UNCHANGED <<arg, heap, outside>>

\* buildStringEqualsFilter(objectTypeId, propertyId, value, caseSensitive),
\* called directly; an absent caseSensitive is an omitted argument
BuildStringEqualsFilter ==
  /\ pc = "start"
  /\ arg.templateName = "string-equals"
  /\ arg.params # Null
  /\ pc' = "stringEquals"
  /\ ret' = buildStringEqualsFilter(Workflow.objectType.id,
                                    Get(arg.params, "propertyId"),
                                    Get(arg.params, "value"),
                                    Get(arg.params, "caseSensitive"))
  /\ UNCHANGED <<arg, heap, outside>>

NextBuild ==
  \/ BuildFromTemplate
  \/ BuildNumericRangeFilter
  \/ BuildStringOrFilter
  \/ BuildStringEqualsFilter

SpecBuild == InitBuild /\ [][NextBuild]_vars

\* the filter inside a built Rule Logic
FilterOf(logic) == Get(Get(Get(logic, "strategy"), "filterNode"), "filter")

\* logic carries every part of the Rule Logic envelope
IsCompleteRuleLogic(logic) ==
  /\ Get(logic, "grammarVersion") = Str("V1")
  /\ Get(logic, "workflowRid") = Workflow.workflowRid
  /\ Get(Get(logic, "strategy"), "type") = Str("filterNode")
  /\ FilterOf(logic).t = "object"
  /\ Get(Get(logic, "effect"), "type") = Str("v2")
  /\ Get(Get(Get(logic, "effect"), "v2"), "outputAndVersion").t = "object"

\* C2: a BuildResult is either success with a complete logic and no errors,
\* or failure with a non-empty errors list and no logic.
C2_BuildResultShape ==
  pc = "built" =>
    \/ /\ Get(ret, "success") = Bool(TRUE)
       /\ IsCompleteRuleLogic(Get(ret, "logic"))
       /\ ~HasKey(ret, "errors")
    \/ /\ Get(ret, "success") = Bool(FALSE)
       /\ IsArray(Get(ret, "errors"))
       /\ Len(Get(ret, "errors").a) > 0
       /\ ~HasKey(ret, "logic")

\* a build has failed with two accumulated errors
C2_Witness ==
  /\ pc = "built"
  /\ Get(ret, "success") = Bool(FALSE)
  /\ Len(Get(ret, "errors").a) = 2

\* f is a columnFilterRule leaf on propertyId, not a compound node
IsColumnFilter(f, propertyId) ==
  /\ Get(f, "type") = Str("columnFilterRule")
  /\ ~HasKey(f, "andFilterRule")
  /\ ~HasKey(f, "orFilterRule")
  /\ ~HasKey(f, "notFilterRule")
  /\ Get(Get(Get(Get(f, "columnFilterRule"), "column"), "objectProperty"),
         "propertyTypeId") = propertyId

\* the comparison of the given kind that leaf f carries
ComparisonOf(f, kind) == Get(Get(Get(f, "columnFilterRule"), "filter"), kind)

IsNumericBound(f, propertyId, op, value) ==
  /\ IsColumnFilter(f, propertyId)
  /\ Get(Get(Get(f, "columnFilterRule"), "filter"), "type")
       = Str("numericColumnFilter")
  /\ Get(ComparisonOf(f, "numericColumnFilter"), "type") = Str(op)
  /\ Get(ComparisonOf(f, "numericColumnFilter"), "values") = Arr(<<value>>)

IsStringEquals(f, propertyId, value) ==
  /\ IsColumnFilter(f, propertyId)
  /\ Get(Get(Get(f, "columnFilterRule"), "filter"), "type")
       = Str("stringColumnFilter")
  /\ Get(ComparisonOf(f, "stringColumnFilter"), "type") = Str("EQUALS")
  /\ Get(ComparisonOf(f, "stringColumnFilter"), "values") = Arr(<<value>>)

\* the shape the numeric-range template is to give for the bounds supplied
IsNumericRange(f, propertyId, min, max) ==
  CASE min # Undef /\ max = Undef ->
         IsNumericBound(f, propertyId, "GREATER_THAN_OR_EQUAL", min)
    [] min = Undef /\ max # Undef ->
         IsNumericBound(f, propertyId, "LESS_THAN_OR_EQUAL", max)
    [] min # Undef /\ max # Undef ->
         LET filters == Get(Get(f, "andFilterRule"), "filters") IN
         /\ Get(f, "type") = Str("andFilterRule")
         /\ ~HasKey(f, "columnFilterRule")
         /\ IsArray(filters)
         /\ Len(filters.a) = 2
         /\ IsNumericBound(filters.a[1], propertyId, "GREATER_THAN_OR_EQUAL", min)
         /\ IsNumericBound(filters.a[2], propertyId, "LESS_THAN_OR_EQUAL", max)
    [] OTHER -> FALSE

\* C9: numeric-range with only min is a single GREATER_THAN_OR_EQUAL leaf on
\* [min], with only max a single LESS_THAN_OR_EQUAL leaf on [max], neither
\* wrapped in a compound node; with both it is an And of exactly the two
\* leaves, min bound first.
C9_NumericRangeShape ==
  LET propertyId == Get(arg.params, "propertyId")
      min == Get(arg.params, "min")
      max == Get(arg.params, "max")
      given == min # Undef \/ max # Undef
  IN /\ pc = "numericRange" /\ given =>
          /\ ~ret.thrown
          /\ IsNumericRange(ret.val, propertyId, min, max)
     /\ pc = "built" /\ arg.templateName = "numeric-range"
          /\ Truthy(propertyId) /\ given =>
          /\ Get(ret, "success") = Bool(TRUE)
          /\ IsNumericRange(FilterOf(Get(ret, "logic")), propertyId, min, max)

\* the template has built a range from both bounds, one of them 0
C9_Witness ==
  /\ pc = "built"
  /\ arg.templateName = "numeric-range"
  /\ Get(arg.params, "min") = Num(0)
  /\ Get(arg.params, "max") = Num(100)
  /\ Get(FilterOf(Get(ret, "logic")), "type") = Str("andFilterRule")

\* f is an Or of one EQUALS leaf per value, in the order of values
IsStringOr(f, propertyId, values) ==
  LET filters == Get(Get(f, "orFilterRule"), "filters") IN
  /\ Get(f, "type") = Str("orFilterRule")
  /\ ~HasKey(f, "columnFilterRule")
  /\ IsArray(filters)
  /\ Len(filters.a) = Len(values.a)
  /\ \A i \in 1..Len(values.a) :
       IsStringEquals(filters.a[i], propertyId, values.a[i])

\* C10: string-or with n >= 1 values is an Or of exactly n EQUALS leaves on
\* propertyId, the i-th holding the single value values[i]; one value is
\* still wrapped in Or.
C10_StringOrShape ==
  LET propertyId == Get(arg.params, "propertyId")
      values == Get(arg.params, "values")
      nonEmpty == IsArray(values) /\ Len(values.a) >= 1
  IN /\ pc = "stringOr" /\ nonEmpty => IsStringOr(ret, propertyId, values)
     /\ pc = "built" /\ arg.templateName = "string-or"
          /\ Truthy(propertyId) /\ nonEmpty =>
          /\ Get(ret, "success") = Bool(TRUE)
          /\ IsStringOr(FilterOf(Get(ret, "logic")), propertyId, values)

\* the template has built an Or from a single value
C10_Witness ==
  /\ pc = "built"
  /\ arg.templateName = "string-or"
  /\ Get(arg.params, "values") = Arr(<<Str("b")>>)
  /\ Get(FilterOf(Get(ret, "logic")), "type") = Str("orFilterRule")

\* f is one EQUALS leaf on propertyId holding [value], with the given flag
IsStringEqualsWithFlag(f, propertyId, value, flag) ==
  /\ IsStringEquals(f, propertyId, value)
  /\ Get(ComparisonOf(f, "stringColumnFilter"), "caseSensitive") = flag

\* C11: string-equals yields a single ColumnFilter leaf on propertyId, not
\* wrapped in a compound node, whose string comparison is EQUALS with values
\* [value] and caseSensitive equal to the flag supplied, false when the flag
\* is omitted; by the template and by buildStringEqualsFilter alike.
C11_StringEqualsShape ==
  LET propertyId == Get(arg.params, "propertyId")
      value == Get(arg.params, "value")
      supplied == Get(arg.params, "caseSensitive")
      flag == IF supplied = Undef THEN Bool(FALSE) ELSE supplied
  IN /\ pc = "stringEquals" =>
          IsStringEqualsWithFlag(ret, propertyId, value, flag)
     /\ pc = "built" /\ arg.templateName = "string-equals"
          /\ Truthy(propertyId) /\ Truthy(value) =>
          /\ Get(ret, "success") = Bool(TRUE)
          /\ IsStringEqualsWithFlag(FilterOf(Get(ret, "logic")),
                                    propertyId, value, flag)

\* the template has built a case-sensitive leaf
C11_Witness ==
  /\ pc = "built"
  /\ arg.templateName = "string-equals"
  /\ Get(arg.params, "caseSensitive") = Bool(TRUE)
  /\ Get(ComparisonOf(FilterOf(Get(ret, "logic")), "stringColumnFilter"),
         "caseSensitive") = Bool(TRUE)

\* the parameters each template requires by name (numeric-range requires,
\* besides, one of min and max)
RequiredParameters(templateName) ==
  CASE templateName = "string-equals" -> {"propertyId", "value"}
    [] templateName = "string-or" -> {"propertyId", "values"}
    [] templateName = "numeric-range" -> {"propertyId"}
    [] templateName = "null-check" -> {"propertyId"}
    [] OTHER -> {}

KnownTemplates == {"string-equals", "string-or", "numeric-range", "null-check"}

\* the required parameters that params does not carry
AbsentParameters(templateName, params) ==
  {name \in RequiredParameters(templateName) : Get(params, name) = Undef}

\* numeric-range was given neither bound
BoundsAbsent(templateName, params) ==
  /\ templateName = "numeric-range"
  /\ Get(params, "min") = Undef
  /\ Get(params, "max") = Undef

\* the errors of a BuildResult, none when it has no errors field
ErrorsOf(result) ==
  IF HasKey(result, "errors") THEN Get(result, "errors").a ELSE <<>>

\* the entries an errors list can hold for parameter name
MissingParameterErrors(name) ==
  {Str("Missing required parameter: " \o name),
   Str("Missing or empty required parameter: " \o name)}

\* C12: buildFromTemplate checks every required parameter before it
\* constructs anything: the errors list has an entry for each absent
\* required parameter, all together, and a logic is constructed only when no
\* error was collected.
C12_AllMissingReported ==
  pc = "built" /\ arg.templateName \in KnownTemplates /\ ~IsNullish(arg.params) =>
    LET absent == AbsentParameters(arg.templateName, arg.params)
        noBound == BoundsAbsent(arg.templateName, arg.params)
        errors == ErrorsOf(ret)
    IN /\ \A name \in absent :
            \E i \in 1..Len(errors) : errors[i] \in MissingParameterErrors(name)
       /\ noBound =>
            \E i \in 1..Len(errors) :
               errors[i] = Str("At least one of min or max is required")
       /\ Len(errors) >= Cardinality(absent) + (IF noBound THEN 1 ELSE 0)
       /\ absent # {} \/ noBound =>
            /\ Get(ret, "success") = Bool(FALSE)
            /\ ~HasKey(ret, "logic")
       /\ HasKey(ret, "logic") => Len(errors) = 0

\* string-or was called without propertyId and without values, and both are
\* reported
C12_Witness ==
  /\ pc = "built"
  /\ arg.templateName = "string-or"
  /\ arg.params = EmptyObj
  /\ Len(ErrorsOf(ret)) = 2

\* C13: for every template, when a required parameter (propertyId, value,
\* values) is absent, errors contains a string exactly equal to
\* "Missing required parameter: <name>".
C13_ExactMissingMessage ==
  pc = "built" /\ arg.templateName \in KnownTemplates /\ ~IsNullish(arg.params) =>
    \A name \in AbsentParameters(arg.templateName, arg.params) :
       \E i \in 1..Len(ErrorsOf(ret)) :
          ErrorsOf(ret)[i] = Str("Missing required parameter: " \o name)

\* string-or was called without values and reports it in other words
C13_Witness ==
  /\ pc = "built"
  /\ arg.templateName = "string-or"
  /\ Get(arg.params, "propertyId") = Str("property_a")
  /\ Get(arg.params, "values") = Undef
  /\ ErrorsOf(ret) = <<Str("Missing or empty required parameter: values")>>

\* params without its values field
WithoutValues(params) ==
  Obj([k \in DOMAIN params.o \ {"values"} |-> params.o[k]])

\* the error of the values check, which is the last one pushed
ValuesError(result) == ErrorsOf(result)[Len(ErrorsOf(result))]

\* C14: string-or called with values present but empty fails with an error
\* for values that differs from the error the same call gets when values is
\* missing altogether.
C14_EmptyDistinctFromMissing ==
  pc = "built" /\ arg.templateName = "string-or" /\ ~IsNullish(arg.params)
    /\ Get(arg.params, "values") = Arr(<<>>) =>
    /\ Get(ret, "success") = Bool(FALSE)
    /\ ValuesError(ret)
         # ValuesError(buildFromTemplate("string-or", WithoutValues(arg.params),
                                        Workflow))

\* string-or was called with an empty values array and failed
C14_Witness ==
  /\ pc = "built"
  /\ arg.templateName = "string-or"
  /\ Get(arg.params, "propertyId") = Str("property_a")
  /\ Get(arg.params, "values") = Arr(<<>>)
  /\ Get(ret, "success") = Bool(FALSE)
  /\ Len(ErrorsOf(ret)) = 1

(***************************************************************************)
(* The wrapper texts a caller hands to decompress: texts that are not      *)
(* JSON, JSON values that are not wrapper objects, and wrappers whose      *)
(* compressedValue is absent, not a string, a symbol stream of up to       *)
(* MaxSymbols symbols, or the payload compress writes for an atom.         *)
(***************************************************************************)
MaxSymbols == 3

Symbols ==
  {Lit(Literal("null")), Lit(NumberTok(1)), Lit(Word("x")), Lit(LBrack),
   Lit(RBrack), EndOfStream, Code(3), Code(4), Code(9)}
SymbolStreams == UNION {[1..n -> Symbols] : n \in 1..MaxSymbols}

Payloads ==
  {Null, Str(""), Num(0), Num(5), Bool(FALSE)}
    \cup {Enc(syms) : syms \in SymbolStreams}
    \cup {compressToEncodedURIComponent(JSONstringify(v)) : v \in Atoms}

Wrappers ==
  {Null, Num(5), Arr(<<>>), Str("x")}
    \cup {Obj(f @@ g) : f \in OptField("compressedValue", Payloads),
                        g \in OptField("type", {Str("compressedValue")})}

NotJsonTexts ==
  {Txt(<<Word("not json")>>), Txt(<<>>), Txt(<<LBrace>>),
   Txt(<<LBrace, StringTok(Str("compressedValue")), Colon>>)}

DecompressArgs == NotJsonTexts \cup {JSONstringify(w) : w \in Wrappers}

InitDecompress ==
  /\ pc = "start"
  /\ heap = InitialHeap
  /\ sent = <<>>
  /\ now = 0
  /\ arg \in DecompressArgs
  /\ ret = Returned(Undef)

\* decompress(compressedWrapper), on a text that compress need not have
\* written
DecompressText ==
  /\ pc = "start"
  /\ pc' = "decompressedText"
  /\ ret' = decompress(arg)
  /\ UNCHANGED <<arg, heap, outside>>

NextDecompress == DecompressText

SpecDecompress == InitDecompress /\ [][NextDecompress]_vars

\* the wrapper the text arg parses to, when it parses
WrapperOf(text) == JSONparse(text).val
\* the wrapper's payload, undefined when it has none
PayloadOf(text) == Get(WrapperOf(text), "compressedValue")
\* what the codec makes of a payload that is a string
DecodedOf(text) == decompressFromEncodedURIComponent(PayloadOf(text))

IsJson(text) == ~JSONparse(text).thrown
HasStringPayload(text) ==
  IsJson(text) /\ ~IsNullish(WrapperOf(text)) /\ IsString(PayloadOf(text))
\* the codec returned null or the empty string
DecodesToEmpty(text) == HasStringPayload(text) /\ ~Truthy(DecodedOf(text))
\* the codec returned a text that is not JSON
DecodesToGarbage(text) ==
  /\ HasStringPayload(text)
  /\ Truthy(DecodedOf(text))
  /\ ~IsJson(DecodedOf(text))

\* C15: decompress throws when the outer text is not valid JSON, when the
\* wrapper has no compressedValue and when compressedValue fails to decode;
\* it never returns undefined, and returns null only for a payload that
\* decodes to the JSON text null.
C15_ThrowsOnMalformed ==
  pc = "decompressedText" =>
    /\ ~IsJson(arg) => ret.thrown
    /\ IsJson(arg) /\ ~HasKey(WrapperOf(arg), "compressedValue") => ret.thrown
    /\ DecodesToEmpty(arg) \/ DecodesToGarbage(arg) => ret.thrown
    /\ ~ret.thrown =>
         /\ ret.val # Undef
         /\ ret.val = Null => DecodedOf(arg) = Txt(<<Literal("null")>>)

\* decompress has thrown on a payload whose second symbol is a code that is
\* not in the dictionary
C15_Witness ==
  /\ pc = "decompressedText"
  /\ HasStringPayload(arg)
  /\ PayloadOf(arg) = Enc(<<Lit(NumberTok(1)), Code(9)>>)
  /\ DecodedOf(arg) = Null
  /\ ret.thrown

\* the messages that include the phrase 'Failed to decompress'
SaysFailedToDecompress(message) ==
  message = "Failed to decompress - invalid compressed value"

\* C16: whenever the payload cannot be turned back into a value, both when
\* decoding returns empty and when it produces text that is not valid JSON,
\* decompress throws an error whose message includes 'Failed to decompress'.
C16_FailedToDecompressMessage ==
  pc = "decompressedText" /\ (DecodesToEmpty(arg) \/ DecodesToGarbage(arg)) =>
    /\ ret.thrown
    /\ SaysFailedToDecompress(ret.message)

\* the payload has decoded to a text that is not JSON and decompress has
\* thrown what JSON.parse throws
C16_Witness ==
  /\ pc = "decompressedText"
  /\ DecodesToGarbage(arg)
  /\ ret.thrown
  /\ ret.name = "SyntaxError"

(***************************************************************************)
(* The callers of the validators.  Init draws a candidate rule logic and   *)
(* a resolved config; each action is one call of one validator on them.    *)
(***************************************************************************)
Strs(names) == [i \in 1..Len(names) |-> Str(names[i])]

\* a ValidationConfig (config/types.ts)
ValidationCfg(strategies, unsupported, numeric, null) ==
  [grammarVersion |-> Str("V1"),
   supportedStrategyTypes |-> Strs(strategies),
   supportedStringFilters |-> Strs(<<"EQUALS", "CONTAINS", "MATCHES">>),
   unsupportedStringFilters |-> Strs(unsupported),
   supportedNumericFilters |-> Strs(numeric),
   supportedNullFilters |-> Strs(null)]

AllStrategies == <<"filterNode", "windowNode", "aggregationNode">>

\* the validation block of the tests' config
BaseCfg ==
  ValidationCfg(AllStrategies, <<"REGEX", "STARTS_WITH">>,
                <<"EQUALS", "GREATER_THAN", "LESS_THAN">>, <<"NULL", "NOT_NULL">>)

\* configs that differ in the operator lists: an operator both supported and
\* unsupported, an empty numeric list, an empty null list
FilterCfgs ==
  {ValidationCfg(AllStrategies, u, n, z) :
     u \in {<<"REGEX", "STARTS_WITH">>, <<"EQUALS">>},
     n \in {<<>>, <<"EQUALS", "GREATER_THAN", "LESS_THAN">>},
     z \in {<<>>, <<"NULL", "NOT_NULL">>}}

Config(validation) == [workflow |-> Workflow, validation |-> validation]

\* a columnFilterRule on property p with operator op of the given kind
ColumnFilter(p, kind, op) ==
  Obj([columnFilterRule |->
         Obj([column |-> ColumnOf(Workflow.objectType.id, Str(p)),
              filter |-> Obj((kind :> Obj([type |-> Str(op)]))
                             @@ [type |-> Str(kind)])]),
       type |-> Str("columnFilterRule")])

AndFilter(filters) ==
  Obj([andFilterRule |-> Obj([filters |-> Arr(filters)]),
       type |-> Str("andFilterRule")])
OrFilter(filters) ==
  Obj([orFilterRule |-> Obj([filters |-> Arr(filters)]),
       type |-> Str("orFilterRule")])
NotFilter(filter) ==
  Obj([notFilterRule |-> Obj([filter |-> filter]), type |-> Str("notFilterRule")])

\* property_a, property_b, property_c are declared; the others are not
Leaves ==
  {ColumnFilter("property_a", "stringColumnFilter", "EQUALS"),
   ColumnFilter("unknown_property", "stringColumnFilter", "REGEX"),
   ColumnFilter("unknown_property", "stringColumnFilter", "UNKNOWN_FILTER"),
   ColumnFilter("other_unknown", "stringColumnFilter", "STARTS_WITH"),
   ColumnFilter("property_b", "numericColumnFilter", "GREATER_THAN"),
   ColumnFilter("unknown_property", "numericColumnFilter", "BETWEEN"),
   ColumnFilter("property_c", "nullColumnFilter", "NULL"),
   ColumnFilter("property_a", "nullColumnFilter", "IS_NULL")}

MaxChildren == 2

LeafLists == UNION {[1..n -> Leaves] : n \in 0..MaxChildren}

\* filters that are not filter rules, or rules of a wrong shape
MalformedFilters ==
  {Null, Str("x"), Arr(<<ColumnFilter("property_a", "stringColumnFilter", "REGEX")>>),
   Obj([columnFilterRule |-> Str("x")]),
   Obj([columnFilterRule |-> EmptyObj]),
   Obj([orFilterRule |-> Obj([filters |-> Str("x")])]),
   Obj([columnFilterRule |->
          Obj([column |-> ColumnOf(Workflow.objectType.id, Str("property_a")),
               filter |-> Obj([stringColumnFilter |-> Obj([type |-> Str("REGEX")]),
                               numericColumnFilter |-> Obj([type |-> Str("BETWEEN")])])]),
        andFilterRule |->
          Obj([filters |->
                 Arr(<<ColumnFilter("other_unknown", "nullColumnFilter", "IS_NULL")>>)])])}

Filters ==
  Leaves
  \cup {AndFilter(fs) : fs \in LeafLists}
  \cup {OrFilter(fs) : fs \in LeafLists}
  \cup {NotFilter(f) : f \in Leaves}
  \cup {NotFilter(OrFilter(<<a, AndFilter(<<b>>)>>)) : a, b \in Leaves}
  \cup MalformedFilters

\* a rule logic of the shape wrapFilterAsRuleLogic writes, around a strategy
RuleLogic(strategy, parameterValues) ==
  Obj([namedStrategies |-> EmptyObj,
       strategyComponents |-> Null,
       grammarVersion |-> Str("V1"),
       strategy |-> strategy,
       workflowRid |-> Workflow.workflowRid,
       effect |->
         Obj([v2 |-> Obj([outputAndVersion |->
                            Obj([outputId |-> Workflow.output.id,
                                 outputVersion |-> Workflow.output.version,
                                 workflowRid |-> Workflow.workflowRid]),
                          parameterValues |-> parameterValues]),
              type |-> Str("v2")])])

FilterLogics == {wrapFilterAsRuleLogic(f, Workflow) : f \in Filters}

MaxColumns == 1

\* an element of columnsToAdd: a definition over key, nothing, or null
ColumnsToAdd(key) ==
  UNION {[1..n ->
            {Obj([columnDefinition |->
                    Obj((key :> ColumnOf(Workflow.objectType.id, Str(p))))]) :
               p \in {"property_a", "unknown_property"}}
            \cup {EmptyObj, Null}] : n \in 0..MaxColumns}

\* the elements of partitionBy: column references
PartitionBy ==
  UNION {[1..n -> {ColumnOf(Workflow.objectType.id, Str(p)) :
                     p \in {"property_b", "other_unknown"}}
                  \cup {Null}] : n \in 0..MaxColumns}

\* the elements of groupByColumns: objects holding a column reference
GroupByColumns ==
  UNION {[1..n -> {Obj([column |-> ColumnOf(Workflow.objectType.id, Str(p))]) :
                     p \in {"property_b", "other_unknown"}}
                  \cup {Null}] : n \in 0..MaxColumns}

\* effect.v2.parameterValues: none, a column parameter, a constant parameter
ParameterValues ==
  {EmptyObj,
   Obj([p1 |-> Obj([type |-> Str("column"),
                    column |-> ColumnOf(Workflow.objectType.id,
                                        Str("unknown_property"))]),
        p2 |-> Obj([type |-> Str("constant"), column |-> Null]),
        p3 |-> Null])}

NodeLogics ==
  {RuleLogic(Obj([type |-> Str("windowNode"),
                  windowNode |-> Obj([columnsToAdd |-> Arr(cs),
                                      partitionBy |-> Arr(ps)])]), pv) :
     cs \in ColumnsToAdd("column"), ps \in PartitionBy, pv \in ParameterValues}
  \cup
  {RuleLogic(Obj([type |-> Str("aggregationNode"),
                  aggregationNode |-> Obj([columnsToAdd |-> Arr(cs),
                                           groupByColumns |-> Arr(gs)])]), pv) :
     cs \in ColumnsToAdd("aggregationColumn"), gs \in GroupByColumns,
     pv \in ParameterValues}
  \cup
  {RuleLogic(Obj([type |-> Str("windowNode"), windowNode |-> EmptyObj]), EmptyObj),
   RuleLogic(Obj([type |-> Str("aggregationNode"),
                  aggregationNode |-> Obj([columnsToAdd |-> Str("x")])]), EmptyObj)}

\* a filterNode payload with an undeclared property and an unsupported operator
FilterNodeOf(fields) ==
  Obj(fields @@
      [filter |-> OrFilter(<<ColumnFilter("unknown_property", "stringColumnFilter",
                                          "REGEX"),
                             ColumnFilter("property_b", "numericColumnFilter",
                                          "BETWEEN")>>)])

\* strategies: not an object, or an object with or without a kind and a payload
Strategies ==
  {Null, Str("x"), Arr(<<>>)}
  \cup {Obj(t @@ n) :
          t \in OptField("type", {Str("filterNode"), Str("joinNode")}),
          n \in OptField("filterNode",
                         {Null, Str("x"), Num(0), Arr(<<>>), FilterNodeOf(<<>>),
                          FilterNodeOf([type |-> Str("filterNode")])})}
  \cup {Obj([type |-> Str("windowNode")] @@ n) :
          n \in OptField("windowNode", {Null, EmptyObj})}

Effects ==
  {Null, Str("v2")}
  \cup {Obj(t @@ v) :
          t \in OptField("type", {Str("v2"), Str("v1")}),
          v \in OptField("v2", {Null, Str("x"), EmptyObj,
                                Obj([outputAndVersion |-> Null]),
                                Obj([outputAndVersion |-> Str("")]),
                                Obj([outputAndVersion |-> EmptyObj])})}

\* rule logics that differ in what the structure pass looks at
StructureLogics ==
  {Undef, Null, Str("x"), Num(0), Arr(<<>>), EmptyObj}
  \cup {Obj(g @@ w @@ s @@ e) :
          g \in OptField("grammarVersion", {Str("V1"), Str("V2")}),
          w \in OptField("workflowRid",
                         {Str(""), Workflow.workflowRid,
                          Str("ri.taurus.main.workflow.other"), Num(42)}),
          s \in OptField("strategy", Strategies),
          e \in OptField("effect", Effects)}

ValidateArgs ==
  {[logic |-> l, config |-> Config(BaseCfg)] : l \in StructureLogics \cup NodeLogics}
  \cup {[logic |-> l, config |-> Config(ValidationCfg(<<"filterNode">>, <<>>, <<>>, <<>>))] :
          l \in NodeLogics}
  \cup {[logic |-> l, config |-> Config(c)] : l \in FilterLogics, c \in FilterCfgs}

InitValidate ==
  /\ pc = "start"
  /\ heap = InitialHeap
  /\ sent = <<>>
  /\ now = 0
  /\ arg \in ValidateArgs
  /\ ret = Returned(Undef)

ValidateRuleLogic ==
  /\ pc = "start"
  /\ pc' = "validateRuleLogic"
  /\ ret' = validateRuleLogic(arg.logic, arg.config.validation)
  /\ UNCHANGED <<arg, heap, outside>>

ValidateProperties ==
  /\ pc = "start"
  /\ pc' = "validateProperties"
  /\ ret' = validateProperties(arg.logic, arg.config.workflow.objectType)
  /\ UNCHANGED <<arg, heap, outside>>

ValidateFilterTypes ==
  /\ pc = "start"
  /\ pc' = "validateFilterTypes"
  /\ ret' = Returned(validateFilterTypes(arg.logic, arg.config.validation))
  /\ UNCHANGED <<arg, heap, outside>>

ValidateProposal ==
  /\ pc = "start"
  /\ pc' = "validateProposal"
  /\ ret' = validateProposal(Obj([logic |-> arg.logic]), arg.config)
  /\ UNCHANGED <<arg, heap, outside>>

PerformFullValidation ==
  /\ pc = "start"
  /\ pc' = "performFullValidation"
  /\ ret' = performFullValidation(arg.logic, arg.config)
  /\ UNCHANGED <<arg, heap, outside>>

NextValidate ==
  \/ ValidateRuleLogic
  \/ ValidateProperties
  \/ ValidateFilterTypes
  \/ ValidateProposal
  \/ PerformFullValidation

SpecValidate == InitValidate /\ [][NextValidate]_vars

\* what the passes return on the caller's argument
StructureOf(a) == validateRuleLogic(a.logic, a.config.validation)
PropertiesOf(a) == validateProperties(a.logic, a.config.workflow.objectType)
FilterTypesOf(a) == validateFilterTypes(a.logic, a.config.validation)

\* C3: in validateProposal and in performFullValidation, when the structure
\* pass reports an error the result is returned with valid = false, with the
\* structure pass's errors, and with propertyErrors, filterErrors and
\* filterWarnings empty: the later passes have not run.
C3_FailFastAfterStructure ==
  (/\ pc \in {"validateProposal", "performFullValidation"}
   /\ ~StructureOf(arg).thrown
   /\ Len(StructureOf(arg).val.errors) > 0)
  => /\ ~ret.thrown
     /\ ret.val.valid = FALSE
     /\ ret.val.propertyErrors = <<>>
     /\ ret.val.filterErrors = <<>>
     /\ ret.val.filterWarnings = <<>>
     /\ (pc = "performFullValidation" \/ Truthy(arg.logic))
          => ret.val.structureErrors = StructureOf(arg).val.errors

\* a structure error on a logic the later passes would have reported on
C3_Witness ==
  /\ pc = "performFullValidation"
  /\ ~StructureOf(arg).thrown
  /\ Len(StructureOf(arg).val.errors) > 0
  /\ ~PropertiesOf(arg).thrown
  /\ Len(PropertiesOf(arg).val.errors) > 0
  /\ Len(FilterTypesOf(arg).errors) > 0
  /\ Len(FilterTypesOf(arg).warnings) > 0
  /\ ret.val.propertyErrors = <<>>

\* C4: when the structure pass succeeds, the valid flag validateProposal
\* returns is the conjunction of the three passes' valid flags; the
\* filter-type warnings are reported and never make it false, so a result
\* with no error in any list is valid whatever its warnings.
C4_ValidIsConjunction ==
  (/\ pc = "validateProposal"
   /\ Truthy(arg.logic)
   /\ ~StructureOf(arg).thrown
   /\ StructureOf(arg).val.valid
   /\ ~PropertiesOf(arg).thrown)
  => /\ ~ret.thrown
     /\ ret.val.valid = (/\ StructureOf(arg).val.valid
                         /\ PropertiesOf(arg).val.valid
                         /\ FilterTypesOf(arg).valid)
     /\ ret.val.propertyErrors = PropertiesOf(arg).val.errors
     /\ ret.val.filterErrors = FilterTypesOf(arg).errors
     /\ ret.val.filterWarnings = FilterTypesOf(arg).warnings
     /\ (/\ ret.val.structureErrors = <<>>
         /\ ret.val.propertyErrors = <<>>
         /\ ret.val.filterErrors = <<>>) => ret.val.valid

\* a logic whose only findings are warnings, found valid
C4_Witness ==
  /\ pc = "validateProposal"
  /\ ~ret.thrown
  /\ ret.val.valid
  /\ Len(ret.val.filterWarnings) > 0
  /\ ret.val.structureErrors = <<>>
  /\ ret.val.propertyErrors = <<>>
  /\ ret.val.filterErrors = <<>>

\* a field is present: it holds a value that is not null or undefined
Present(x, k) == ~IsNullish(OptGet(x, k))

\* the conditions the structure pass is said to check
StructureConditions(l, cfg) ==
  LET strategy == OptGet(l, "strategy")
      kind == OptGet(strategy, "type")
      effect == OptGet(l, "effect")
  IN /\ OptGet(l, "grammarVersion") = cfg.grammarVersion
     /\ Present(l, "workflowRid") /\ IsString(OptGet(l, "workflowRid"))
     /\ Present(l, "strategy")
     /\ Includes(cfg.supportedStrategyTypes, kind)
     /\ Present(strategy, ToText(kind))
     /\ kind = Str("filterNode") => ~Present(OptGet(strategy, "filterNode"), "type")
     /\ Present(l, "effect")
     /\ OptGet(effect, "type") = Str("v2")
     /\ Present(OptGet(effect, "v2"), "outputAndVersion")

\* C5: validateRuleLogic returns a result that is valid exactly when the
\* structure conditions hold (grammarVersion equal to the configured one,
\* workflowRid a present string, strategy present with a supported kind and
\* the payload of that kind, no type field on a filterNode payload, effect
\* present of kind v2 with outputAndVersion present); an invalid result
\* carries an error, and a grammarVersion mismatch one that mentions
\* grammarVersion.
C5_StructureValidIffConditions ==
  pc = "validateRuleLogic" =>
    /\ ~ret.thrown
    /\ ret.val.valid = StructureConditions(arg.logic, arg.config.validation)
    /\ ~ret.val.valid => Len(ret.val.errors) > 0
    /\ (/\ TypeofObject(arg.logic) /\ Truthy(arg.logic)
        /\ Get(arg.logic, "grammarVersion") # arg.config.validation.grammarVersion)
         => \E i \in 1..Len(ret.val.errors) :
              Contains(ret.val.errors[i], "grammarVersion")

\* validateRuleLogic throws on a filterNode payload that is a primitive
C5_Witness ==
  /\ pc = "validateRuleLogic"
  /\ ret.thrown
  /\ ret.name = "TypeError"
  /\ Get(Get(arg.logic, "strategy"), "filterNode") = Str("x")

\* the message quotes a name: the second piece of a property error, the third
\* of a filter-type message, whose first piece is the kind of the operator
QuotedProperty(msg) == msg.parts[2]
QuotedOperator(msg) == msg.parts[3]
OperatorKind(msg) == msg.parts[1]

\* the members of a sequence
Range(xs) == {xs[i] : i \in 1..Len(xs)}

\* the ids the object type declares
Declared(objectTypeConfig) ==
  {objectTypeConfig.properties[i].id : i \in 1..Len(objectTypeConfig.properties)}

\* C6: when validateProperties returns, its errors are exactly one for
\* each distinct used property id the object type does not declare, each
\* containing the id, 'does not exist' and every declared id; valid holds
\* iff there is no undeclared used property, so a logic that uses no
\* property is valid with an empty usedProperties.
C6_OneErrorPerUndeclared ==
  (pc = "validateProperties" /\ ~ret.thrown) =>
    LET r == ret.val
        declared == Declared(arg.config.workflow.objectType)
        undeclared == Range(r.usedProperties) \ declared
        ErrorsAbout(p) == {i \in 1..Len(r.errors) :
                             QuotedProperty(r.errors[i]) = ToText(p)}
    IN /\ Cardinality(Range(r.usedProperties)) = Len(r.usedProperties)
       /\ Len(r.errors) = Cardinality(undeclared)
       /\ \A p \in Range(r.usedProperties) :
            Cardinality(ErrorsAbout(p)) = IF p \in undeclared THEN 1 ELSE 0
       /\ \A i \in 1..Len(r.errors) :
            /\ Contains(r.errors[i], "does not exist")
            /\ \A d \in declared : Contains(r.errors[i], ToText(d))
       /\ r.valid = (undeclared = {})
       /\ Range(r.validProperties) = declared
       /\ r.usedProperties = <<>> => r.valid
       /\ arg.logic \in {RuleLogic(Obj([type |-> Str("windowNode"),
                                         windowNode |-> EmptyObj]), EmptyObj),
                          RuleLogic(Obj([type |-> Str("aggregationNode"),
                                         aggregationNode |->
                                           Obj([columnsToAdd |-> Arr(<<>>),
                                                groupByColumns |-> Arr(<<>>)])]),
                                    EmptyObj)}
            => r.valid /\ r.usedProperties = <<>>

\* one undeclared property used by two leaves, next to a second one
C6_Witness ==
  /\ pc = "validateProperties"
  /\ arg.logic = wrapFilterAsRuleLogic(
       NotFilter(OrFilter(<<
         ColumnFilter("unknown_property", "stringColumnFilter", "REGEX"),
         AndFilter(<<ColumnFilter("unknown_property", "numericColumnFilter",
                                  "BETWEEN")>>)>>)),
       Workflow)
  /\ ~ret.thrown
  /\ Len(ret.val.errors) = 1
  /\ ~ret.val.valid

\* the positions of the messages of one kind that quote operator op
MessagesAbout(msgs, kind, op) ==
  {i \in 1..Len(msgs) :
     OperatorKind(msgs[i]) = kind /\ QuotedOperator(msgs[i]) = ToText(op)}

\* C7: for each distinct string operator validateFilterTypes finds in the
\* filter tree: if it is in unsupportedStringFilters there is one error
\* for it, containing its name and 'not supported', and the result is
\* invalid; otherwise if it is not in supportedStringFilters there is one
\* warning for it containing its name, and no error; otherwise there is
\* nothing for it.  The result is valid iff no used string operator is
\* unsupported.
C7_StringOperatorClasses ==
  pc = "validateFilterTypes" =>
    LET r == ret.val
        cfg == arg.config.validation
        ops == r.usedFilters.string
        unsupported == {op \in Range(ops) :
                          Includes(cfg.unsupportedStringFilters, op)}
    IN /\ Cardinality(Range(ops)) = Len(ops)
       /\ \A op \in Range(ops) :
            LET errs == MessagesAbout(r.errors, "String", op)
                warns == MessagesAbout(r.warnings, "String", op)
            IN IF op \in unsupported
               THEN /\ Cardinality(errs) = 1
                    /\ \A i \in errs : /\ Contains(r.errors[i], "not supported")
                                       /\ Contains(r.errors[i], ToText(op))
                    /\ warns = {}
                    /\ ~r.valid
               ELSE IF ~Includes(cfg.supportedStringFilters, op)
               THEN /\ errs = {}
                    /\ Cardinality(warns) = 1
                    /\ \A i \in warns : Contains(r.warnings[i], ToText(op))
               ELSE errs = {} /\ warns = {}
       /\ r.valid = (unsupported = {})
       /\ Len(r.errors) = Cardinality(unsupported)

\* an unsupported operator and an untested one, nested under Not, Or and And
C7_Witness ==
  /\ pc = "validateFilterTypes"
  /\ FilterOf(arg.logic)
       = NotFilter(OrFilter(<<
           ColumnFilter("unknown_property", "stringColumnFilter", "REGEX"),
           AndFilter(<<ColumnFilter("unknown_property", "stringColumnFilter",
                                    "UNKNOWN_FILTER")>>)>>))
  /\ MessagesAbout(ret.val.errors, "String", Str("REGEX")) # {}
  /\ MessagesAbout(ret.val.warnings, "String", Str("UNKNOWN_FILTER")) # {}
  /\ ~ret.val.valid

\* the warnings validateFilterTypes has for the operators of one kind that
\* are not in the supported list: one each, and none for the others
WarnsForAbsent(r, kind, ops, supported) ==
  \A op \in Range(ops) :
    Cardinality(MessagesAbout(r.warnings, kind, op))
      = IF ~Includes(supported, op) THEN 1 ELSE 0

\* the same when an empty supported list disables the loop
WarnsForAbsentIfListed(r, kind, ops, supported) ==
  \A op \in Range(ops) :
    Cardinality(MessagesAbout(r.warnings, kind, op))
      = IF Len(supported) > 0 /\ ~Includes(supported, op) THEN 1 ELSE 0

\* no error of validateFilterTypes is about a numeric or a null operator
NoNumericOrNullError(r) ==
  /\ \A i \in 1..Len(r.errors) : OperatorKind(r.errors[i]) = "String"
  /\ r.usedFilters.string = <<>> => r.valid /\ r.errors = <<>>

\* C8 as stated: validateFilterTypes has no error for a numeric or null
\* operator, and a warning for every used numeric operator absent from
\* supportedNumericFilters and every used null operator absent from
\* supportedNullFilters.
C8_Original ==
  pc = "validateFilterTypes" =>
    LET r == ret.val
        cfg == arg.config.validation
    IN /\ NoNumericOrNullError(r)
       /\ WarnsForAbsent(r, "Numeric", r.usedFilters.numeric,
                         cfg.supportedNumericFilters)
       /\ WarnsForAbsent(r, "Null", r.usedFilters.null, cfg.supportedNullFilters)

\* C8, amended: validateFilterTypes has no error for a numeric or null
\* operator; when supportedNumericFilters is not empty every used numeric
\* operator absent from it has one warning, and when it is empty no numeric
\* operator has a warning; the same for null operators and
\* supportedNullFilters; the two kinds and the string checks do not affect
\* one another.
C8_WarnOnlyAgainstNonEmptyList ==
  pc = "validateFilterTypes" =>
    LET r == ret.val
        cfg == arg.config.validation
    IN /\ NoNumericOrNullError(r)
       /\ WarnsForAbsentIfListed(r, "Numeric", r.usedFilters.numeric,
                                 cfg.supportedNumericFilters)
       /\ WarnsForAbsentIfListed(r, "Null", r.usedFilters.null,
                                 cfg.supportedNullFilters)
       /\ Len(r.warnings)
            = Cardinality({i \in 1..Len(r.warnings) :
                             OperatorKind(r.warnings[i]) = "String"})
              + (IF Len(cfg.supportedNumericFilters) > 0
                 THEN Cardinality({op \in Range(r.usedFilters.numeric) :
                        ~Includes(cfg.supportedNumericFilters, op)})
                 ELSE 0)
              + (IF Len(cfg.supportedNullFilters) > 0
                 THEN Cardinality({op \in Range(r.usedFilters.null) :
                        ~Includes(cfg.supportedNullFilters, op)})
                 ELSE 0)

\* a numeric operator warned about while an untested null operator is not,
\* its supported list being empty
C8_Witness ==
  /\ pc = "validateFilterTypes"
  /\ arg.config.validation.supportedNullFilters = <<>>
  /\ Len(arg.config.validation.supportedNumericFilters) > 0
  /\ Range(ret.val.usedFilters.numeric) = {Str("BETWEEN")}
  /\ Range(ret.val.usedFilters.null) = {Str("IS_NULL")}
  /\ MessagesAbout(ret.val.warnings, "Numeric", Str("BETWEEN")) # {}
  /\ MessagesAbout(ret.val.warnings, "Null", Str("IS_NULL")) = {}
  /\ ret.val.valid

(***************************************************************************)
(* The callers of the extractors.  Init draws a rule logic: a filterNode   *)
(* around a filter tree, whole or partial, with or without a column        *)
(* parameter in the effect; a windowNode or aggregationNode; or a value    *)
(* that is not a rule logic.  Each action is one call of one extractor.    *)
(***************************************************************************)
\* filter rules with children missing, of the wrong type or not objects
PartialFilters ==
  {Undef, Num(0), EmptyObj,
   Obj([type |-> Str("andFilterRule")]),
   Obj([andFilterRule |-> EmptyObj, type |-> Str("andFilterRule")]),
   Obj([orFilterRule |-> Null, type |-> Str("orFilterRule")]),
   Obj([notFilterRule |-> EmptyObj, type |-> Str("notFilterRule")]),
   Obj([notFilterRule |-> Str("x"), type |-> Str("notFilterRule")]),
   NotFilter(Null),
   AndFilter(<<Null, Undef, Str("x"), Num(1), Arr(<<>>),
               ColumnFilter("property_a", "stringColumnFilter", "EQUALS")>>),
   OrFilter(<<NotFilter(Undef), AndFilter(<<Null>>),
              ColumnFilter("property_b", "numericColumnFilter", "BETWEEN")>>),
   Obj([columnFilterRule |-> Obj([column |-> Null, filter |-> Null]),
        type |-> Str("columnFilterRule")]),
   Obj([columnFilterRule |->
          Obj([column |-> Obj([objectProperty |-> Str("x")]),
               filter |-> Obj([stringColumnFilter |-> Str("EQUALS")])]),
        type |-> Str("columnFilterRule")])}

\* values that are not rule logics, or rule logics without their parts
PartialLogics ==
  {Undef, Null, Str("x"), Num(0), Arr(<<>>), EmptyObj,
   Obj([strategy |-> Null]), Obj([strategy |-> Str("x")]),
   Obj([strategy |-> Obj([filterNode |-> Str("x")])]),
   Obj([strategy |-> Obj([filterNode |-> EmptyObj]), effect |-> Str("x")]),
   Obj([strategy |-> Obj([windowNode |-> Str("x"), aggregationNode |-> Arr(<<>>)]),
        effect |-> Obj([v2 |-> Obj([parameterValues |-> Str("x")])])]),
   Obj([strategy |-> EmptyObj,
        effect |-> Obj([v2 |-> Obj([parameterValues |-> Arr(<<Null, Str("x")>>)])])])}

FilterStrategy(filter) ==
  Obj([filterNode |-> Obj([filter |-> filter, type |-> Str("filterNode")]),
       type |-> Str("filterNode")])

ExtractArgs ==
  {RuleLogic(FilterStrategy(f), pv) :
     f \in Filters \cup PartialFilters, pv \in ParameterValues}
  \cup NodeLogics
  \cup PartialLogics

InitExtract ==
  /\ pc = "start"
  /\ heap = InitialHeap
  /\ sent = <<>>
  /\ now = 0
  /\ arg \in ExtractArgs
  /\ ret = Returned(Undef)

\* logic?.strategy?.windowNode and logic?.strategy?.aggregationNode
NodeIn(logic, kind) == OptGet(OptGet(logic, "strategy"), kind)

\* extractPropertiesFromFilter(filter), on the filter of the logic
ExtractPropertiesFromFilter ==
  /\ pc = "start"
  /\ pc' = "propertiesFromFilter"
  /\ ret' = Returned(extractPropertiesFromFilter(FilterIn(arg)))
  /\ UNCHANGED <<arg, heap, outside>>

\* extractPropertiesFromWindowNode(node), on the windowNode of the logic
ExtractPropertiesFromWindowNode ==
  /\ pc = "start"
  /\ pc' = "propertiesFromWindowNode"
  /\ ret' = ExtractorCall(
              NullishColumns(NodeIn(arg, "windowNode"), <<"columnsToAdd">>),
              extractPropertiesFromWindowNode(NodeIn(arg, "windowNode")))
  /\ UNCHANGED <<arg, heap, outside>>

\* extractPropertiesFromAggregationNode(node), on the aggregationNode of
\* the logic
ExtractPropertiesFromAggregationNode ==
  /\ pc = "start"
  /\ pc' = "propertiesFromAggregationNode"
  /\ ret' = ExtractorCall(
              NullishColumns(NodeIn(arg, "aggregationNode"),
                             <<"columnsToAdd", "groupByColumns">>),
              extractPropertiesFromAggregationNode(NodeIn(arg, "aggregationNode")))
  /\ UNCHANGED <<arg, heap, outside>>

\* extractAllProperties(logic)
ExtractAllProperties ==
  /\ pc = "start"
  /\ pc' = "allProperties"
  /\ ret' = ExtractorCall(ThrowingColumns(arg), extractAllProperties(arg))
  /\ UNCHANGED <<arg, heap, outside>>

\* extractStringFilterTypes(filter), on the filter of the logic
ExtractStringFilterTypes ==
  /\ pc = "start"
  /\ pc' = "stringFilterTypes"
  /\ ret' = Returned(extractStringFilterTypes(FilterIn(arg)))
  /\ UNCHANGED <<arg, heap, outside>>

\* extractNumericFilterTypes(filter), on the filter of the logic
ExtractNumericFilterTypes ==
  /\ pc = "start"
  /\ pc' = "numericFilterTypes"
  /\ ret' = Returned(extractNumericFilterTypes(FilterIn(arg)))
  /\ UNCHANGED <<arg, heap, outside>>

\* extractNullFilterTypes(filter), on the filter of the logic
ExtractNullFilterTypes ==
  /\ pc = "start"
  /\ pc' = "nullFilterTypes"
  /\ ret' = Returned(extractNullFilterTypes(FilterIn(arg)))
  /\ UNCHANGED <<arg, heap, outside>>

NextExtract ==
  \/ ExtractPropertiesFromFilter
  \/ ExtractPropertiesFromWindowNode
  \/ ExtractPropertiesFromAggregationNode
  \/ ExtractAllProperties
  \/ ExtractStringFilterTypes
  \/ ExtractNumericFilterTypes
  \/ ExtractNullFilterTypes

SpecExtract == InitExtract /\ [][NextExtract]_vars

RECURSIVE IsFilterTree(_)
\* tree is one of the four Filter Tree variants, whole: a leaf on a property
\* id, an And or Or over a list of trees, a Not over a tree
IsFilterTree(tree) ==
  /\ tree.t = "object"
  /\ CASE Get(tree, "type") = Str("columnFilterRule") ->
            /\ DOMAIN tree.o = {"columnFilterRule", "type"}
            /\ Truthy(Get(Get(Get(Get(tree, "columnFilterRule"), "column"),
                               "objectProperty"), "propertyTypeId"))
       [] Get(tree, "type") = Str("andFilterRule") ->
            /\ DOMAIN tree.o = {"andFilterRule", "type"}
            /\ IsArray(Get(Get(tree, "andFilterRule"), "filters"))
            /\ \A i \in 1..Len(Get(Get(tree, "andFilterRule"), "filters").a) :
                 IsFilterTree(Get(Get(tree, "andFilterRule"), "filters").a[i])
       [] Get(tree, "type") = Str("orFilterRule") ->
            /\ DOMAIN tree.o = {"orFilterRule", "type"}
            /\ IsArray(Get(Get(tree, "orFilterRule"), "filters"))
            /\ \A i \in 1..Len(Get(Get(tree, "orFilterRule"), "filters").a) :
                 IsFilterTree(Get(Get(tree, "orFilterRule"), "filters").a[i])
       [] Get(tree, "type") = Str("notFilterRule") ->
            /\ DOMAIN tree.o = {"notFilterRule", "type"}
            /\ IsFilterTree(Get(Get(tree, "notFilterRule"), "filter"))
       [] OTHER -> FALSE

RECURSIVE LeafProperties(_)
\* the property ids the ColumnFilter leaves of a whole tree refer to
LeafProperties(tree) ==
  CASE Get(tree, "type") = Str("columnFilterRule") ->
         {Get(Get(Get(Get(tree, "columnFilterRule"), "column"),
                  "objectProperty"), "propertyTypeId")}
    [] Get(tree, "type") = Str("andFilterRule") ->
         UNION {LeafProperties(Get(Get(tree, "andFilterRule"), "filters").a[i]) :
                  i \in 1..Len(Get(Get(tree, "andFilterRule"), "filters").a)}
    [] Get(tree, "type") = Str("orFilterRule") ->
         UNION {LeafProperties(Get(Get(tree, "orFilterRule"), "filters").a[i]) :
                  i \in 1..Len(Get(Get(tree, "orFilterRule"), "filters").a)}
    [] Get(tree, "type") = Str("notFilterRule") ->
         LeafProperties(Get(Get(tree, "notFilterRule"), "filter"))

\* the property ids of the column parameters of effect.v2.parameterValues
ColumnParameters(logic) ==
  LET values == Get(Get(Get(logic, "effect"), "v2"), "parameterValues")
  IN {Get(Get(Get(values.o[k], "column"), "objectProperty"), "propertyTypeId") :
        k \in {j \in DOMAIN values.o : Get(values.o[j], "type") = Str("column")}}

\* every element of the list is in it once
NoRepeats(xs) == Cardinality(Range(xs)) = Len(xs)

\* logic is a filterNode rule logic around a whole filter tree
IsFilterTreeLogic(logic) ==
  /\ logic.t = "object"
  /\ Get(logic, "strategy").t = "object"
  /\ DOMAIN Get(logic, "strategy").o = {"filterNode", "type"}
  /\ Get(Get(Get(logic, "effect"), "v2"), "parameterValues").t = "object"
  /\ IsFilterTree(FilterIn(logic))

\* C17 as stated: extractPropertiesFromFilter and extractAllProperties
\* return exactly the distinct property ids of the ColumnFilter leaves of the
\* filter tree, at any depth through And/Or/Not, each id once.
C17_Original ==
  /\ pc = "propertiesFromFilter" /\ IsFilterTree(FilterIn(arg)) =>
       /\ Range(ret.val) = LeafProperties(FilterIn(arg))
       /\ NoRepeats(ret.val)
  /\ pc = "allProperties" /\ IsFilterTreeLogic(arg) =>
       /\ ~ret.thrown
       /\ Range(ret.val) = LeafProperties(FilterIn(arg))
       /\ NoRepeats(ret.val)

\* C17, amended: extractPropertiesFromFilter returns exactly the distinct
\* property ids of the ColumnFilter leaves of the filter tree, at any depth
\* through And/Or/Not, each id once; extractAllProperties returns those
\* together with the property ids of the column parameters of the effect,
\* each id once.
C17_LeafAndParameterProperties ==
  /\ pc = "propertiesFromFilter" /\ IsFilterTree(FilterIn(arg)) =>
       /\ Range(ret.val) = LeafProperties(FilterIn(arg))
       /\ NoRepeats(ret.val)
  /\ pc = "allProperties" /\ IsFilterTreeLogic(arg) =>
       /\ ~ret.thrown
       /\ Range(ret.val)
            = LeafProperties(FilterIn(arg)) \cup ColumnParameters(arg)
       /\ NoRepeats(ret.val)

\* extractAllProperties has walked Not(Or(leaf, And(leaf))) over two
\* properties, one of them also named by a column parameter
C17_Witness ==
  /\ pc = "allProperties"
  /\ IsFilterTreeLogic(arg)
  /\ Get(FilterIn(arg), "type") = Str("notFilterRule")
  /\ LeafProperties(FilterIn(arg)) = {Str("property_a"), Str("unknown_property")}
  /\ ColumnParameters(arg) = {Str("unknown_property")}
  /\ ~ret.thrown
  /\ Len(ret.val) = 2

\* C18: the extractor traversals never throw, whatever the shape of their
\* input: extractPropertiesFromFilter, extractAllProperties with its
\* windowNode and aggregationNode walks, and the three filter-type
\* extractors each return a set.
C18_ExtractorsNeverThrow ==
  pc \in {"propertiesFromFilter", "propertiesFromWindowNode",
          "propertiesFromAggregationNode", "allProperties",
          "stringFilterTypes", "numericFilterTypes", "nullFilterTypes"} =>
    ~ret.thrown

\* extractAllProperties has thrown on a windowNode whose columnsToAdd holds
\* null
C18_Witness ==
  /\ pc = "allProperties"
  /\ Get(NodeIn(arg, "windowNode"), "columnsToAdd") = Arr(<<Null>>)
  /\ ret.thrown
  /\ ret.name = "TypeError"

(***************************************************************************)
(* A caller that keeps what the builders return.  The builders write       *)
(* `macro: DEFAULT_MACRO`: the macro field of a string or numeric leaf is  *)
(* the module's DEFAULT_MACRO object itself, not a copy of it, so a built  *)
(* tree holds a reference there; every other node is an object or array    *)
(* literal evaluated by the call, owned by the tree.  arg is the sequence  *)
(* of the calls made, ret the sequence of what they returned: the tree,    *)
(* what it read as when it was returned, and whether the caller has since  *)
(* written to it.                                                          *)
(***************************************************************************)
MaxCalls == 3

\* a reference to an object of the heap
Ref(name) == [t |-> "ref", to |-> name]

RECURSIVE ByReference(_)
\* a built value with its macro fields as the builders write them
ByReference(v) ==
  CASE v.t = "object" ->
         Obj([k \in DOMAIN v.o |->
                IF k = "macro" THEN Ref("DEFAULT_MACRO") ELSE ByReference(v.o[k])])
    [] v.t = "array" -> Arr([i \in 1..Len(v.a) |-> ByReference(v.a[i])])
    [] OTHER -> v

RECURSIVE Deref(_, _)
\* what a value reads as, its references followed into heap h
Deref(v, h) ==
  CASE v.t = "ref" -> h[v.to]
    [] v.t = "object" -> Obj([k \in DOMAIN v.o |-> Deref(v.o[k], h)])
    [] v.t = "array" -> Arr([i \in 1..Len(v.a) |-> Deref(v.a[i], h)])
    [] OTHER -> v

RECURSIVE ReachesMacro(_)
\* whether a macro field can be reached from v
ReachesMacro(v) ==
  CASE v.t = "ref" -> TRUE
    [] v.t = "object" -> \E k \in DOMAIN v.o : ReachesMacro(v.o[k])
    [] v.t = "array" -> \E i \in 1..Len(v.a) : ReachesMacro(v.a[i])
    [] OTHER -> FALSE

\* the calls the caller makes: templates and filter builders
CallInputs ==
  {[fn |-> "buildFromTemplate", templateName |-> "string-equals",
    params |-> Obj([propertyId |-> Str("property_a"), value |-> Str("test")])],
   [fn |-> "buildFromTemplate", templateName |-> "string-or",
    params |-> Obj([propertyId |-> Str("property_a"),
                    values |-> Arr(<<Str("a"), Str("b")>>)])],
   [fn |-> "buildFromTemplate", templateName |-> "numeric-range",
    params |-> Obj([propertyId |-> Str("property_b"), min |-> Num(0)])],
   [fn |-> "buildFromTemplate", templateName |-> "null-check",
    params |-> Obj([propertyId |-> Str("property_c")])],
   [fn |-> "buildFromTemplate", templateName |-> "string-equals",
    params |-> EmptyObj],
   [fn |-> "buildStringEqualsFilter", templateName |-> "",
    params |-> Obj([propertyId |-> Str("property_a"), value |-> Str("test")])],
   [fn |-> "buildNumericFilter", templateName |-> "",
    params |-> Obj([propertyId |-> Str("property_b"), value |-> Num(10)])]}

\* the value the called builder makes
Built(input) ==
  CASE input.fn = "buildFromTemplate" ->
         buildFromTemplate(input.templateName, input.params, Workflow)
    [] input.fn = "buildStringEqualsFilter" ->
         buildStringEqualsFilter(Workflow.objectType.id,
                                 Get(input.params, "propertyId"),
                                 Get(input.params, "value"), Undef)
    [] input.fn = "buildNumericFilter" ->
         buildNumericFilter(Workflow.objectType.id,
                            Get(input.params, "propertyId"),
                            "GREATER_THAN", Get(input.params, "value"))

\* a result stamped with the number of calls made before it
ReturnedNumbered(input, calls) ==
  Obj(ByReference(Built(input)).o @@ [id |-> Num(Len(calls))])

\* what the call returns to a caller that has made calls before
ReturnedTo(input, calls) == ByReference(Built(input))

InitKeep ==
  /\ pc = "keeping"
  /\ heap = InitialHeap
  /\ sent = <<>>
  /\ now = 0
  /\ arg = <<>>
  /\ ret = <<>>

\* const tree = build...(...)
CallBuilder ==
  /\ Len(ret) < MaxCalls
  /\ \E input \in CallInputs :
       /\ arg' = Append(arg, input)
       /\ ret' = Append(ret, [tree |-> ReturnedTo(input, arg),
                              returned |-> Deref(ReturnedTo(input, arg), heap),
                              written |-> FALSE])
  /\ UNCHANGED <<pc, heap, outside>>

\* tree.note = 'x': a write to a node the tree owns, here its root
WriteOwnNode ==
  /\ \E i \in 1..Len(ret) :
       /\ ~ret[i].written
       /\ ret' = [ret EXCEPT ![i].tree = Obj(@.o @@ [note |-> Str("x")]),
                             ![i].written = TRUE]
  /\ UNCHANGED <<pc, arg, heap, outside>>

\* leaf.macro.function = 'x': a write through the macro field of a leaf of
\* the tree
WriteMacro ==
  /\ \E i \in 1..Len(ret) :
       /\ ~ret[i].written
       /\ ReachesMacro(ret[i].tree)
       /\ ret' = [ret EXCEPT ![i].written = TRUE]
       /\ heap' = [heap EXCEPT !.DEFAULT_MACRO =
                     Obj([@.o EXCEPT !.function = Str("x")])]
  /\ UNCHANGED <<pc, arg, outside>>

NextKeep == CallBuilder \/ WriteOwnNode \/ WriteMacro

SpecKeep == InitKeep /\ [][NextKeep]_vars

C20_NoSharedMutableState ==
  \A j \in 1..Len(ret) :
     /\ ~ret[j].written => Deref(ret[j].tree, heap) = ret[j].returned
     /\ ret[j].returned = Built(arg[j])

\* the caller has written to one tree through its macro field and keeps
\* another tree it has not written to
C20_Witness ==
  /\ Len(ret) >= 2
  /\ ret[1].written
  /\ heap # InitialHeap
  /\ ~ret[2].written
  /\ ReachesMacro(ret[2].tree)
  /\ ret[2].returned = Built(arg[2])
  /\ Deref(ret[2].tree, heap) # ret[2].returned

(***************************************************************************)
(* index.ts createProposal and proposal-cli-v2.ts cmdCreate.  Each is an   *)
(* async function: everything up to `await Actions.apply(...)` runs in one *)
(* step, which either ends the call or leaves the request with the Foundry *)
(* API; the API then resolves or rejects it.  Several creates run under    *)
(* one config: pc, arg and ret are indexed by the create operation.        *)
(***************************************************************************)
\* process.exit(1)
Exit == [thrown |-> TRUE, name |-> "process.exit", message |-> Str("1")]

\* errors.map(e => `[tag] ${e}`)
TaggedErrors(tag, errors) == [i \in 1..Len(errors) |-> Fmt(<<tag, errors[i]>>)]

\* x || d
OrElse(x, d) == IF Truthy(x) THEN x ELSE d

\* `${prefix}${timestamp}`
Stamped(prefix, timestamp) == Str(prefix \o ToString(timestamp))

\* the parameters both creates hand to Actions.apply
CreateParameters(timestamp, name, description, keywords, compressed, config) ==
  [proposal_id |-> Stamped(config.conventions.proposalIdPrefix, timestamp),
   rule_id |-> Stamped(config.conventions.ruleIdPrefix, timestamp),
   new_rule_name |-> name,
   new_rule_description |-> description,
   new_logic |-> compressed,
   new_logic_keywords |-> keywords,
   proposal_author |-> config.conventions.defaultAuthor]

\* the logic createProposal compresses
ProposalLogic(proposal, config) ==
  IF Truthy(Get(proposal, "template")) /\ Truthy(Get(proposal, "params"))
  THEN Get(buildFromTemplate(ToText(Get(proposal, "template")),
                             Get(proposal, "params"), config.workflow), "logic")
  ELSE Get(proposal, "logic")

\* the message of createProposal for a validation that failed
ValidationFailed(validation) ==
  Fmt(<<"Validation failed", ":\n">>
      \o TaggedErrors("[Structure] ", validation.structureErrors)
      \o TaggedErrors("[Property] ", validation.propertyErrors)
      \o TaggedErrors("[Filter] ", validation.filterErrors))

\* the parameters createProposal calls Actions.apply with
RequestWith(proposal, config, timestamp) ==
  Returned(CreateParameters(
    timestamp,
    OrElse(Get(proposal, "name"), Stamped("Rule-", timestamp)),
    OrElse(Get(proposal, "description"),
           OrElse(config.conventions.defaultDescription,
                  Str("Created via library"))),
    OrElse(Get(proposal, "keywords"),
           OrElse(config.conventions.defaultKeywords, Str("library-created"))),
    compress(ProposalLogic(proposal, config)),
    config))

\* a createProposal that submits whatever the validation said
RequestUnvalidated(validation, proposal, config, timestamp) ==
  RequestWith(proposal, config, timestamp)

\* createProposal up to its await, on the result of validateProposal: what
\* it throws, or the parameters it calls Actions.apply with
RequestAfter(validation, proposal, config, timestamp) ==
  IF validation.thrown THEN validation
  ELSE IF ~validation.val.valid
  THEN Thrown("Error", ValidationFailed(validation.val))
  ELSE IF ~Truthy(config.foundry.token)
  THEN Thrown("Error", Str("FOUNDRY_TOKEN not set in config"))
  ELSE RequestWith(proposal, config, timestamp)

\* createProposal(proposal, config) up to its await
createProposalRequest(proposal, config, timestamp) ==
  RequestAfter(validateProposal(proposal, config), proposal, config, timestamp)

\* what createProposal returns once Actions.apply has resolved
CreateProposalResult(parameters) ==
  Returned([success |-> TRUE,
            proposalId |-> parameters.proposal_id,
            ruleId |-> parameters.rule_id,
            compressedLogic |-> parameters.new_logic])

\* cmdCreate after its try block, on the result of performFullValidation
CmdCreateAfter(validation, logic, name, description, keywords, config, timestamp) ==
  IF validation.thrown THEN validation
  ELSE IF ~validation.val.valid THEN Exit
  ELSE IF ~Truthy(config.foundry.token) THEN Exit
  ELSE Returned(CreateParameters(timestamp, name, description, keywords,
                                 compress(logic), config))

\* cmdCreate(jsonFile, config) up to its await, on the parsed content of
\* the file
CmdCreateParsed(parsed, config, timestamp) ==
  IF parsed.thrown \/ IsNullish(parsed.val) THEN Exit
  ELSE IF Truthy(Get(parsed.val, "template")) /\ Truthy(Get(parsed.val, "params"))
  THEN IF ~Truthy(ProposalLogic(parsed.val, config)) THEN Exit
       ELSE CmdCreateAfter(
              performFullValidation(ProposalLogic(parsed.val, config), config),
              ProposalLogic(parsed.val, config),
              OrElse(Get(parsed.val, "name"), Stamped("Rule-", timestamp)),
              OrElse(Get(parsed.val, "description"),
                     OrElse(config.conventions.defaultDescription,
                            Str("Created via CLI"))),
              OrElse(Get(parsed.val, "keywords"),
                     OrElse(config.conventions.defaultKeywords, Str("cli-created"))),
              config, timestamp)
  ELSE CmdCreateAfter(
         performFullValidation(parsed.val, config), parsed.val,
         Stamped("Rule-", timestamp),
         OrElse(config.conventions.defaultDescription,
                Str("Created from raw JSON via CLI")),
         OrElse(config.conventions.defaultKeywords, Str("cli-created")),
         config, timestamp)

\* cmdCreate(jsonFile, config) up to its await, on the content of the file
cmdCreateRequest(content, config, timestamp) ==
  CmdCreateParsed(JSONparse(content), config, timestamp)

MaxCreates == 2
MaxTime == 1

\* the resolved config of the creates: the token is '' when its environment
\* variable is not set
CreateConfig(token) ==
  [workflow |-> Workflow,
   validation |-> BaseCfg,
   foundry |-> [url |-> Str("https://foundry.test"),
                ontologyRid |-> Str("ri.ontology.main.ontology.test"),
                token |-> token],
   conventions |-> [proposalIdPrefix |-> "PROP-", ruleIdPrefix |-> "RULE-",
                    defaultAuthor |-> Str("author"),
                    defaultDescription |-> Undef, defaultKeywords |-> Undef]]

\* proposals: built from a template; a template with a parameter missing;
\* a named raw logic on an undeclared property
Proposals ==
  {Obj([template |-> Str("string-equals"),
        params |-> Obj([propertyId |-> Str("property_a"), value |-> Str("test")])]),
   Obj([template |-> Str("string-equals"),
        params |-> Obj([propertyId |-> Str("property_a")])]),
   Obj([logic |-> wrapFilterAsRuleLogic(
                    ColumnFilter("unknown_property", "stringColumnFilter", "REGEX"),
                    Workflow),
        name |-> Str("My rule")])}

\* the files of cmdCreate: a raw logic, a template proposal with a parameter
\* missing, and a text that is not JSON
Files ==
  {JSONstringify(wrapFilterAsRuleLogic(
                   ColumnFilter("property_b", "numericColumnFilter", "EQUALS"),
                   Workflow)),
   JSONstringify(Obj([template |-> Str("string-or"),
                      params |-> Obj([propertyId |-> Str("property_a")])])),
   Txt(<<Word("not json")>>)}

CreateCalls ==
  {[fn |-> "createProposal", input |-> p] : p \in Proposals}
  \cup {[fn |-> "cmdCreate", input |-> f] : f \in Files}

Creates == 1..MaxCreates

InitCreate ==
  /\ pc = [i \in Creates |-> "start"]
  /\ \E token \in {Str(""), Str("token")} :
       arg \in [Creates -> {[fn |-> c.fn, input |-> c.input,
                             config |-> CreateConfig(token)] : c \in CreateCalls}]
  /\ ret = [i \in Creates |-> Returned(Undef)]
  /\ heap = InitialHeap
  /\ sent = <<>>
  /\ now = 0

\* the call goes on to its await with the request, or ends with what it
\* threw
Requested(i, request) ==
  IF request.thrown
  THEN /\ pc' = [pc EXCEPT ![i] = "failed"]
       /\ ret' = [ret EXCEPT ![i] = request]
       /\ UNCHANGED sent
  ELSE /\ pc' = [pc EXCEPT ![i] = "applying"]
       /\ sent' = Append(sent, [by |-> i, parameters |-> request.val])
       /\ UNCHANGED ret

\* createProposal(proposal, config), up to await Actions.apply(...)
CreateProposal(i) ==
  /\ pc[i] = "start"
  /\ arg[i].fn = "createProposal"
  /\ Requested(i, createProposalRequest(arg[i].input, arg[i].config, now))
  /\ UNCHANGED <<arg, heap, now>>

\* cmdCreate(jsonFile, config), up to await Actions.apply(...)
CmdCreate(i) ==
  /\ pc[i] = "start"
  /\ arg[i].fn = "cmdCreate"
  /\ Requested(i, cmdCreateRequest(arg[i].input, arg[i].config, now))
  /\ UNCHANGED <<arg, heap, now>>

\* the request create i has made
RequestOf(i) == sent[CHOOSE k \in 1..Len(sent) : sent[k].by = i].parameters

\* Actions.apply resolves
ApplyResolves(i) ==
  /\ pc[i] = "applying"
  /\ pc' = [pc EXCEPT ![i] = "created"]
  /\ ret' = [ret EXCEPT ![i] = IF arg[i].fn = "createProposal"
                                THEN CreateProposalResult(RequestOf(i))
                                ELSE Returned(Undef)]
  /\ UNCHANGED <<arg, heap, outside>>

\* Actions.apply rejects
ApplyRejects(i) ==
  /\ pc[i] = "applying"
  /\ pc' = [pc EXCEPT ![i] = "failed"]
  /\ ret' = [ret EXCEPT ![i] = Thrown("ApiError", Str("Action failed"))]
  /\ UNCHANGED <<arg, heap, outside>>

\* a millisecond passes
Tick ==
  /\ now < MaxTime
  /\ now' = now + 1
  /\ UNCHANGED <<pc, arg, ret, heap, sent>>

NextCreate ==
  \/ \E i \in Creates : CreateProposal(i)
  \/ \E i \in Creates : CmdCreate(i)
  \/ \E i \in Creates : ApplyResolves(i)
  \/ \E i \in Creates : ApplyRejects(i)
  \/ Tick

SpecCreate == InitCreate /\ [][NextCreate]_vars

\* the calls of Actions.apply create i has made
CallsBy(i) == {k \in 1..Len(sent) : sent[k].by = i}

\* what validateProposal returns for create i
ValidationOf(i) == validateProposal(arg[i].input, arg[i].config)

\* C21: createProposal validates, compresses, then submits: it calls the
\* create action at most once, only after validateProposal returned valid and
\* with a token configured, and with the compressed logic; when validation
\* fails it throws an error beginning 'Validation failed', when the token is
\* missing it throws 'FOUNDRY_TOKEN not set in config', both without a call
\* of the action.
C21_ValidateCompressSubmit ==
  \A i \in Creates :
     arg[i].fn = "createProposal" /\ pc[i] # "start" =>
       \A validation \in {ValidationOf(i)} :
          /\ Cardinality(CallsBy(i)) <= 1
          /\ CallsBy(i) # {} =>
               /\ ~validation.thrown
               /\ validation.val.valid
               /\ Truthy(arg[i].config.foundry.token)
               /\ RequestOf(i).new_logic
                    = compress(ProposalLogic(arg[i].input, arg[i].config))
          /\ ~validation.thrown =>
               IF ~validation.val.valid
               THEN /\ pc[i] = "failed"
                    /\ ret[i].thrown
                    /\ ret[i].name = "Error"
                    /\ "parts" \in DOMAIN ret[i].message
                    /\ ret[i].message.parts[1] = "Validation failed"
                    /\ CallsBy(i) = {}
               ELSE ~Truthy(arg[i].config.foundry.token) =>
                    /\ pc[i] = "failed"
                    /\ ret[i] = Thrown("Error", Str("FOUNDRY_TOKEN not set in config"))
                    /\ CallsBy(i) = {}

\* one createProposal has been refused for a failed validation and another
\* has submitted a built logic and returned
C21_Witness ==
  /\ arg[1].fn = "createProposal"
  /\ arg[2].fn = "createProposal"
  /\ pc[1] = "failed"
  /\ ret[1].name = "Error"
  /\ ~ValidationOf(1).val.valid
  /\ pc[2] = "created"
  /\ Cardinality(CallsBy(2)) = 1
  /\ ret[2].val.compressedLogic = RequestOf(2).new_logic

(***************************************************************************)
(* proposal-cli-v2.ts cmdBatchReject and index.ts bulkRejectProposals.     *)
(* The texts the pattern is looked up in are sequences of characters.      *)
(* sent holds the calls of Actions.apply with what the API answered.       *)
(***************************************************************************)
MaxItems == 2

Chars(cs) == [t |-> "string", chars |-> cs]

\* (x as string) || ''
TextOr(x) == IF x.t = "undefined" THEN <<>> ELSE x.chars

\* s.includes(p)
IncludesText(s, p) ==
  \E i \in 0..(Len(s) - Len(p)) : SubSeq(s, i + 1, i + Len(p)) = p

\* proposals.filter(p => id.includes(pattern) || name.includes(pattern))
Matching(proposals, pattern) ==
  SelectSeq(proposals,
            LAMBDA p : \/ IncludesText(TextOr(p.proposalId), pattern)
                       \/ IncludesText(TextOr(p.newRuleName), pattern))

\* the parameters of the reject action for one item
RejectParameters(proposalId, reviewer) ==
  [proposal_object |-> proposalId, proposal_reviewer |-> reviewer]

\* the call of Actions.apply for item i of the batch
RejectCall(batch, i) ==
  [parameters |-> RejectParameters(batch.items[i], batch.reviewer),
   outcome |-> "pending"]

\* the batch before its loop
BatchOf(items, reviewer) ==
  [items |-> items, reviewer |-> reviewer, i |-> 1, rejected |-> 0,
   failed |-> 0, results |-> <<>>]

\* rejected++ after the await
Rejected(batch) ==
  [batch EXCEPT !.rejected = @ + 1, !.i = @ + 1,
                !.results = Append(@, [success |-> TRUE,
                                       message |-> "Rejected"])]

\* a loop that gives up at the first failed item
FailedAndStopped(batch) ==
  [batch EXCEPT !.failed = @ + 1, !.i = Len(batch.items) + 1,
                !.results = Append(@, [success |-> FALSE,
                                       message |-> "Failed to reject"])]

\* failed++ in the catch block
Failed(batch) ==
  [batch EXCEPT !.failed = @ + 1, !.i = @ + 1,
                !.results = Append(@, [success |-> FALSE,
                                       message |-> "Failed to reject"])]

\* what bulkRejectProposals returns after its loop
BulkRejectResult(batch) ==
  [success |-> batch.failed = 0, total |-> Len(batch.items),
   rejected |-> batch.rejected, failed |-> batch.failed,
   results |-> batch.results]

BatchProposals ==
  {[proposalId |-> Chars(<<"P", "1">>), newRuleName |-> Chars(<<"a">>)],
   [proposalId |-> Chars(<<"Q", "2">>), newRuleName |-> Chars(<<"a", "P">>)],
   [proposalId |-> Chars(<<"Q", "3">>), newRuleName |-> Undef]}

Patterns == {<<"P">>, <<"Q", "3">>, <<"z">>}

RECURSIVE SeqsUpTo(_, _)
\* the sequences over S of length at most n
SeqsUpTo(S, n) ==
  IF n = 0 THEN {<<>>}
  ELSE SeqsUpTo(S, n - 1)
       \cup {Append(xs, x) : xs \in {ys \in SeqsUpTo(S, n - 1) : Len(ys) = n - 1},
                              x \in S}

BatchArgs ==
  {[fn |-> "cmdBatchReject", pattern |-> pattern, data |-> data,
    defaultAuthor |-> "author"] :
     pattern \in Patterns,
     data \in {Arr(ps) : ps \in SeqsUpTo(BatchProposals, MaxItems)} \cup {Undef}}
  \cup {[fn |-> "bulkRejectProposals", proposalIds |-> ids, reason |-> reason] :
          ids \in SeqsUpTo({p.proposalId : p \in BatchProposals}, MaxItems),
          reason \in {Undef, Str("bulk-cleanup")}}

InitBatch ==
  /\ pc = "start"
  /\ arg \in BatchArgs
  /\ ret = Undef
  /\ heap = InitialHeap
  /\ sent = <<>>
  /\ now = 0

\* cmdBatchReject(pattern, config) up to await OntologyObjectsV2.search(...)
CmdBatchReject ==
  /\ pc = "start"
  /\ arg.fn = "cmdBatchReject"
  /\ pc' = "searching"
  /\ UNCHANGED <<arg, ret, heap, outside>>

\* the loop is over: bulkRejectProposals returns its result, cmdBatchReject
\* prints its counts
Completed(batch) ==
  IF arg.fn = "bulkRejectProposals" THEN BulkRejectResult(batch) ELSE batch

\* the batch goes on with item batch.i, or ends; calls are the calls so far
Continue(batch, calls) ==
  IF batch.i <= Len(batch.items)
  THEN /\ pc' = "rejecting"
       /\ ret' = batch
       /\ sent' = Append(calls, RejectCall(batch, batch.i))
  ELSE /\ pc' = "done"
       /\ ret' = Completed(batch)
       /\ sent' = calls

\* the search resolves with result.data: the matching proposals are listed
\* and rejected one after the other, or there is none
SearchResolves ==
  /\ pc = "searching"
  /\ \E matching \in {Matching(IF IsNullish(arg.data) THEN <<>> ELSE arg.data.a,
                                arg.pattern)} :
       IF Len(matching) = 0
       THEN pc' = "done" /\ UNCHANGED <<ret, sent>>
       ELSE Continue(BatchOf([k \in 1..Len(matching) |-> matching[k].proposalId],
                             Str(arg.defaultAuthor \o "-batch")), sent)
  /\ UNCHANGED <<arg, heap, now>>

\* the search rejects: cmdBatchReject ends with the error
SearchRejects ==
  /\ pc = "searching"
  /\ pc' = "failed"
  /\ ret' = Thrown("ApiError", Str("Search failed"))
  /\ UNCHANGED <<arg, heap, outside>>

\* bulkRejectProposals(proposalIds, config, reason) up to its first await
BulkRejectProposals ==
  /\ pc = "start"
  /\ arg.fn = "bulkRejectProposals"
  /\ Continue(BatchOf(arg.proposalIds,
                      IF IsNullish(arg.reason) THEN Str("author") ELSE arg.reason),
              sent)
  /\ UNCHANGED <<arg, heap, now>>

\* the API's answer to the last call
Answered(outcome) == [sent EXCEPT ![Len(sent)].outcome = outcome]

\* Actions.apply resolves for the item
RejectResolves ==
  /\ pc = "rejecting"
  /\ Continue(Rejected(ret), Answered("resolved"))
  /\ UNCHANGED <<arg, heap, now>>

\* Actions.apply rejects for the item: the catch block
RejectFails ==
  /\ pc = "rejecting"
  /\ Continue(Failed(ret), Answered("rejected"))
  /\ UNCHANGED <<arg, heap, now>>

NextBatch ==
  \/ CmdBatchReject
  \/ SearchResolves
  \/ SearchRejects
  \/ BulkRejectProposals
  \/ RejectResolves
  \/ RejectFails

SpecBatch == InitBatch /\ [][NextBatch]_vars

\* the items the batch is made of: the matching proposals' ids, or the ids
\* passed in
ItemsOf(a) ==
  IF a.fn = "bulkRejectProposals" THEN a.proposalIds
  ELSE LET matching == Matching(IF IsNullish(a.data) THEN <<>> ELSE a.data.a,
                                a.pattern)
       IN [k \in 1..Len(matching) |-> matching[k].proposalId]

\* the calls of the reject action with the given outcome
CallsWith(outcome) == {k \in 1..Len(sent) : sent[k].outcome = outcome}

\* C22: a batch rejection calls the reject action once for every item, in
\* order, and goes on after an item's call has failed; when it is complete
\* rejected + failed is the number of items, rejected counts the calls that
\* succeeded, the batch is reported successful iff failed is 0, and an empty
\* batch makes no call.
C22_BatchReject ==
  /\ Len(sent) <= Len(ItemsOf(arg))
  /\ \A k \in 1..Len(sent) : sent[k].parameters.proposal_object = ItemsOf(arg)[k]
  /\ pc = "rejecting" =>
       /\ Len(sent) = ret.i
       /\ sent[Len(sent)].outcome = "pending"
       /\ \A k \in 1..(Len(sent) - 1) : sent[k].outcome # "pending"
  /\ pc = "done" =>
       /\ Len(sent) = Len(ItemsOf(arg))
       /\ ItemsOf(arg) # <<>> =>
            /\ ret.rejected + ret.failed = Len(ItemsOf(arg))
            /\ ret.rejected = Cardinality(CallsWith("resolved"))
            /\ ret.failed = Cardinality(CallsWith("rejected"))
       /\ arg.fn = "bulkRejectProposals" =>
            /\ ret.rejected + ret.failed = ret.total
            /\ ret.total = Len(arg.proposalIds)
            /\ ret.success <=> ret.failed = 0

\* a batch of two whose first call failed and whose second succeeded is
\* complete
C22_Witness ==
  /\ pc = "done"
  /\ arg.fn = "cmdBatchReject"
  /\ Len(sent) = 2
  /\ sent[1].outcome = "rejected"
  /\ sent[2].outcome = "resolved"
  /\ ret.rejected = 1
  /\ ret.failed = 1

(***************************************************************************)
(* compression.ts getCompressedValue and wrapCompressedValue.  ret is the  *)
(* sequence of the results so far, each with the function that gave it.    *)
(***************************************************************************)
\* getCompressedValue(compressedWrapper)
getCompressedValue(compressedWrapper) ==
  LET wrapper == JSONparse(compressedWrapper) IN
  IF wrapper.thrown THEN wrapper
  ELSE IF IsNullish(wrapper.val)
  THEN Thrown("TypeError", "Cannot read properties of null")
  ELSE Returned(Get(wrapper.val, "compressedValue"))

\* a wrapper without its type
wrapCompressedValueUntyped(compressedValue) ==
  JSONstringify(Obj([compressedValue |-> compressedValue]))

\* wrapCompressedValue(compressedValue)
wrapCompressedValue(compressedValue) ==
  JSONstringify(Obj([compressedValue |-> compressedValue,
                     type |-> Str("compressedValue")]))

MaxUnwraps == 2

\* a logic to compress, an encoded string to wrap, or a text to unwrap
WrapArgs ==
  {[kind |-> "logic", v |-> v] : v \in JsonValues}
  \cup {[kind |-> "encoded", v |-> Enc(syms)] : syms \in SymbolStreams}
  \cup {[kind |-> "encoded", v |-> Str("")]}
  \cup {[kind |-> "text", v |-> t] : t \in NotJsonTexts}

InitWrap ==
  /\ pc = "start"
  /\ arg \in WrapArgs
  /\ ret = <<>>
  /\ heap = InitialHeap
  /\ sent = <<>>
  /\ now = 0

Result(fn, val) == [fn |-> fn, val |-> val]
Last(results) == results[Len(results)].val

\* getCompressedValue calls so far
Unwraps == Cardinality({k \in 1..Len(ret) : ret[k].fn = "getCompressedValue"})

\* const wrapper = compress(logic)
CompressLogic ==
  /\ pc = "start"
  /\ arg.kind = "logic"
  /\ pc' = "wrapper"
  /\ ret' = <<Result("compress", compress(arg.v))>>
  /\ UNCHANGED <<arg, heap, outside>>

\* getCompressedValue(wrapper), or getCompressedValue('not json')
GetCompressedValue ==
  /\ \/ pc = "wrapper" /\ Unwraps < MaxUnwraps
     \/ pc = "start" /\ arg.kind = "text"
  /\ \E value \in {getCompressedValue(IF pc = "start" THEN arg.v ELSE Last(ret))} :
       IF value.thrown
       THEN pc' = "failed" /\ ret' = Append(ret, Result("getCompressedValue", value))
       ELSE pc' = "value" /\ ret' = Append(ret, Result("getCompressedValue", value.val))
  /\ UNCHANGED <<arg, heap, outside>>

\* wrapCompressedValue(value)
WrapCompressedValue ==
  /\ \/ pc = "value"
     \/ pc = "start" /\ arg.kind = "encoded"
  /\ pc' = "wrapper"
  /\ ret' = Append(ret, Result("wrapCompressedValue",
                               wrapCompressedValue(IF pc = "start" THEN arg.v
                                                   ELSE Last(ret))))
  /\ UNCHANGED <<arg, heap, outside>>

\* decompress(rewrapped)
DecompressWrapper ==
  /\ pc = "wrapper"
  /\ pc' = "decompressed"
  /\ ret' = Append(ret, Result("decompress", decompress(Last(ret))))
  /\ UNCHANGED <<arg, heap, outside>>

NextWrap ==
  \/ CompressLogic
  \/ GetCompressedValue
  \/ WrapCompressedValue
  \/ DecompressWrapper

SpecWrap == InitWrap /\ [][NextWrap]_vars

\* what the call that gave result k was passed
PassedTo(k) == IF k = 1 THEN arg.v ELSE ret[k - 1].val

\* C23: getCompressedValue and wrapCompressedValue are mutually inverse:
\* wrapping the value taken from a wrapper that compress produced gives that
\* wrapper again, which decompresses to the original, and the value taken
\* from a wrapped encoded string is that string.
C23_MutuallyInverse ==
  \A k \in 1..Len(ret) :
     /\ ret[k].fn = "wrapCompressedValue" /\ k > 2 /\ arg.kind = "logic" =>
          ret[k].val = ret[k - 2].val
     /\ ret[k].fn = "decompress" /\ arg.kind = "logic" =>
          ret[k].val = Returned(arg.v)
     /\ ret[k].fn = "getCompressedValue" /\ k > 1
        /\ ret[k - 1].fn = "wrapCompressedValue" =>
          ret[k].val = PassedTo(k - 1)

\* a wrapper from compress has been unwrapped and wrapped again twice over,
\* and the last wrapper decompressed
C23_Witness ==
  /\ arg.kind = "logic"
  /\ arg.v = Obj([key |-> Str("a")])
  /\ Len(ret) = 6
  /\ ret[2].fn = "getCompressedValue"
  /\ ret[3].fn = "wrapCompressedValue"
  /\ ret[4].fn = "getCompressedValue"
  /\ ret[5].fn = "wrapCompressedValue"
  /\ ret[6].fn = "decompress"
  /\ ~ret[6].val.thrown

(***************************************************************************)
(* validation/filters.ts validateIgnoreWhitespace                          *)
(***************************************************************************)
\* a list of operators that leaves MATCHES out
requiresIgnoreWhitespaceContainsOnly(filterType) ==
  Includes(<<Str("CONTAINS"), Str("EQUALS_WITH_WILDCARDS")>>, filterType)

\* requiresIgnoreWhitespace(filterType)
requiresIgnoreWhitespace(filterType) ==
  Includes(<<Str("CONTAINS"), Str("MATCHES"), Str("EQUALS_WITH_WILDCARDS")>>,
           filterType)

IgnoreWhitespaceError(filterType, ignoreWhitespace) ==
  Fmt(<<"String filter type \"", ToText(filterType),
        "\" requires ignoreWhitespace: true, ", "but got: ",
        ToText(ignoreWhitespace)>>)

\* the block on f.columnFilterRule
WhitespaceErrorsOfLeaf(errors, f) ==
  LET strFilter == OptGet(Get(Get(f, "columnFilterRule"), "filter"),
                          "stringColumnFilter")
  IN IF Truthy(Get(f, "columnFilterRule")) /\ Truthy(strFilter)
        /\ requiresIgnoreWhitespace(Get(strFilter, "type"))
        /\ Get(strFilter, "ignoreWhitespace") # Bool(TRUE)
     THEN Append(errors, IgnoreWhitespaceError(Get(strFilter, "type"),
                                               Get(strFilter, "ignoreWhitespace")))
     ELSE errors

RECURSIVE validateIgnoreWhitespaceRecursive(_, _)
RECURSIVE WhitespaceErrorsOfSubFilters(_, _)
\* for (const subFilter of filters) validateIgnoreWhitespaceRecursive(subFilter, errors)
WhitespaceErrorsOfSubFilters(errors, filters) ==
  IF filters = <<>> THEN errors
  ELSE WhitespaceErrorsOfSubFilters(
         validateIgnoreWhitespaceRecursive(Head(filters), errors), Tail(filters))

\* validateIgnoreWhitespaceRecursive(filter, errors): errors after the call
validateIgnoreWhitespaceRecursive(filter, errors) ==
  IF ~Truthy(filter) \/ ~TypeofObject(filter) THEN errors
  ELSE
  LET e1 == WhitespaceErrorsOfLeaf(errors, filter)
      e2 == WhitespaceErrorsOfSubFilters(e1, SubFiltersOf(filter, "orFilterRule"))
      e3 == WhitespaceErrorsOfSubFilters(e2, SubFiltersOf(filter, "andFilterRule"))
  IN IF Truthy(Get(filter, "notFilterRule"))
     THEN validateIgnoreWhitespaceRecursive(
            Get(Get(filter, "notFilterRule"), "filter"), e3)
     ELSE e3

\* validateIgnoreWhitespace(filter)
validateIgnoreWhitespace(filter) ==
  LET errors == validateIgnoreWhitespaceRecursive(filter, <<>>)
  IN [valid |-> Len(errors) = 0, errors |-> errors]

\* a string columnFilterRule with operator op and the given ignoreWhitespace
\* field, if any
StringFilter(op, flag) ==
  Obj([columnFilterRule |->
         Obj([column |-> ColumnOf(Workflow.objectType.id, Str("property_a")),
              filter |-> Obj([stringColumnFilter |-> Obj([type |-> Str(op)] @@ flag),
                              type |-> Str("stringColumnFilter")])]),
       type |-> Str("columnFilterRule")])

WhitespaceFlags ==
  OptField("ignoreWhitespace", {Bool(TRUE), Bool(FALSE), Str("true")})

WhitespaceLeaves ==
  {StringFilter(op, flag) :
     op \in {"CONTAINS", "MATCHES", "EQUALS_WITH_WILDCARDS", "EQUALS"},
     flag \in WhitespaceFlags}
  \cup {ColumnFilter("property_b", "numericColumnFilter", "CONTAINS"),
        ColumnFilter("property_c", "nullColumnFilter", "MATCHES")}

WhitespaceLeafLists == UNION {[1..n -> WhitespaceLeaves] : n \in 0..MaxChildren}

WhitespaceArgs ==
  WhitespaceLeaves
  \cup {AndFilter(fs) : fs \in WhitespaceLeafLists}
  \cup {OrFilter(fs) : fs \in WhitespaceLeafLists}
  \cup {NotFilter(f) : f \in WhitespaceLeaves}
  \cup {NotFilter(OrFilter(<<a, AndFilter(<<b>>)>>)) :
          a \in WhitespaceLeaves,
          b \in {StringFilter("MATCHES", <<>>), StringFilter("EQUALS", <<>>)}}
  \cup MalformedFilters \cup {Undef}

InitWhitespace ==
  /\ pc = "start"
  /\ arg \in WhitespaceArgs
  /\ ret = Undef
  /\ heap = InitialHeap
  /\ sent = <<>>
  /\ now = 0

\* validateIgnoreWhitespace(filter)
ValidateIgnoreWhitespace ==
  /\ pc = "start"
  /\ pc' = "validated"
  /\ ret' = validateIgnoreWhitespace(arg)
  /\ UNCHANGED <<arg, heap, outside>>

\* requiresIgnoreWhitespace(filterType), on the operator of a leaf
RequiresIgnoreWhitespace ==
  /\ pc = "start"
  /\ arg \in WhitespaceLeaves
  /\ pc' = "required"
  /\ ret' = Bool(requiresIgnoreWhitespace(
                   Get(Get(Get(Get(arg, "columnFilterRule"), "filter"),
                           "stringColumnFilter"), "type")))
  /\ UNCHANGED <<arg, heap, outside>>

NextWhitespace == ValidateIgnoreWhitespace \/ RequiresIgnoreWhitespace

SpecWhitespace == InitWhitespace /\ [][NextWhitespace]_vars

RECURSIVE LeavesOf(_)
\* the ColumnFilter leaves of a whole tree, from left to right
LeavesOf(tree) ==
  CASE Get(tree, "type") = Str("columnFilterRule") -> <<tree>>
    [] Get(tree, "type") = Str("notFilterRule") ->
         LeavesOf(Get(Get(tree, "notFilterRule"), "filter"))
    [] OTHER ->
         LET filters == Get(Get(tree, Get(tree, "type").s), "filters").a
             RECURSIVE Concat(_)
             Concat(i) == IF i > Len(filters) THEN <<>>
                          ELSE LeavesOf(filters[i]) \o Concat(i + 1)
         IN Concat(1)

\* the kind, operator and ignoreWhitespace field of a leaf
KindOfLeaf(leaf) == Get(Get(Get(leaf, "columnFilterRule"), "filter"), "type")
OperatorOfLeaf(leaf) ==
  Get(Get(Get(Get(leaf, "columnFilterRule"), "filter"), KindOfLeaf(leaf).s), "type")
FlagOfLeaf(leaf) ==
  Get(Get(Get(Get(leaf, "columnFilterRule"), "filter"), KindOfLeaf(leaf).s),
      "ignoreWhitespace")

\* a string leaf with one of the three operators and no ignoreWhitespace:
\* true
NeedsFlag(leaf) ==
  /\ KindOfLeaf(leaf) = Str("stringColumnFilter")
  /\ OperatorOfLeaf(leaf) \in
       {Str("CONTAINS"), Str("MATCHES"), Str("EQUALS_WITH_WILDCARDS")}
  /\ FlagOfLeaf(leaf) # Bool(TRUE)

\* the message about a leaf names its operator
IsAbout(message, leaf) ==
  /\ message.parts[1] = "String filter type \""
  /\ message.parts[2] = OperatorOfLeaf(leaf).s

\* C24: validateIgnoreWhitespace reports exactly the string ColumnFilter
\* leaves, at any depth, whose operator is CONTAINS, MATCHES or
\* EQUALS_WITH_WILDCARDS and whose ignoreWhitespace is not true, one error
\* each; a leaf with another operator is never reported; valid iff no leaf
\* is reported.
C24_IgnoreWhitespace ==
  pc = "validated" /\ arg # Undef /\ IsFilterTree(arg) =>
    LET reported == SelectSeq(LeavesOf(arg), NeedsFlag)
    IN /\ Len(ret.errors) = Len(reported)
       /\ \A i \in 1..Len(reported) : IsAbout(ret.errors[i], reported[i])
       /\ ret.valid <=> Len(reported) = 0

\* a tree three levels deep with a MATCHES leaf without the flag has been
\* validated, next to a CONTAINS leaf with ignoreWhitespace: true
C24_Witness ==
  /\ pc = "validated"
  /\ arg = NotFilter(OrFilter(<<StringFilter("CONTAINS", [ignoreWhitespace |-> Bool(TRUE)]),
                                AndFilter(<<StringFilter("MATCHES", <<>>)>>)>>))
  /\ Len(ret.errors) = 1
  /\ ~ret.valid

(***************************************************************************)
(* The checks of the structure pass, one by one                            *)
(***************************************************************************)
\* the first piece of a message
FirstPiece(msg) == IF "parts" \in DOMAIN msg THEN msg.parts[1] ELSE msg.s

\* the check a message of validateRuleLogic comes from: 1 grammarVersion,
\* 2 workflowRid, 3 strategy, 4 effect
CheckOf(msg) ==
  CASE FirstPiece(msg) = "grammarVersion" -> 1
    [] FirstPiece(msg) = "workflowRid is required and must be a string" -> 2
    [] FirstPiece(msg) \in {"strategy is required and must be an object",
                             "strategy.type", "strategy.",
                             "filterNode should NOT have a type field (type goes in strategy)"}
         -> 3
    [] FirstPiece(msg) \in {"effect is required and must be an object",
                             "effect.type", "effect.v2 is required",
                             "effect.v2.outputAndVersion is required"} -> 4

\* the four checks, as conditions on the logic
CheckFails(check, l, cfg) ==
  LET strategy == Get(l, "strategy")
      kind == Get(strategy, "type")
      effect == Get(l, "effect")
  IN CASE check = 1 -> Get(l, "grammarVersion") # cfg.grammarVersion
       [] check = 2 -> ~Truthy(Get(l, "workflowRid")) \/ ~IsString(Get(l, "workflowRid"))
       [] check = 3 ->
            \/ ~Truthy(strategy) \/ ~TypeofObject(strategy)
            \/ ~Includes(cfg.supportedStrategyTypes, kind)
            \/ Truthy(kind) /\ ~Truthy(Get(strategy, ToText(kind)))
            \/ kind = Str("filterNode") /\ HasKey(Get(strategy, "filterNode"), "type")
       [] check = 4 ->
            \/ ~Truthy(effect) \/ ~TypeofObject(effect)
            \/ Get(effect, "type") # Str("v2")
            \/ ~Truthy(Get(effect, "v2")) \/ ~TypeofObject(Get(effect, "v2"))
            \/ ~Truthy(Get(Get(effect, "v2"), "outputAndVersion"))

\* errors holds an error for each failing check and for no other, in the
\* order of the checks
ErrorsOfEveryFailingCheck(errors, l, cfg) ==
  /\ \A check \in 1..4 :
       CheckFails(check, l, cfg) <=> \E i \in 1..Len(errors) : CheckOf(errors[i]) = check
  /\ \A i, j \in 1..Len(errors) : i < j => CheckOf(errors[i]) <= CheckOf(errors[j])

\* C25: the structure pass is not fail-fast within itself: for every logic
\* that is an object, validateRuleLogic returns an errors list that holds an
\* error for every one of the grammarVersion, workflowRid, strategy and
\* effect checks that fails, in that order.
C25_EveryFailingCheckReported ==
  pc = "validateRuleLogic" /\ Truthy(arg.logic) /\ TypeofObject(arg.logic) =>
    /\ ~ret.thrown
    /\ ErrorsOfEveryFailingCheck(ret.val.errors, arg.logic, arg.config.validation)

\* the same, for the calls that return
EveryFailingCheckReportedOnReturn ==
  pc = "validateRuleLogic" /\ Truthy(arg.logic) /\ TypeofObject(arg.logic)
    /\ ~ret.thrown =>
    ErrorsOfEveryFailingCheck(ret.val.errors, arg.logic, arg.config.validation)

\* validateRuleLogic has thrown on a logic whose grammarVersion, workflowRid
\* and effect checks fail
C25_Witness ==
  /\ pc = "validateRuleLogic"
  /\ ret.thrown
  /\ CheckFails(1, arg.logic, arg.config.validation)
  /\ CheckFails(2, arg.logic, arg.config.validation)
  /\ CheckFails(4, arg.logic, arg.config.validation)

\* all four checks have failed and validateRuleLogic has returned
AllFourChecksReported ==
  /\ pc = "validateRuleLogic"
  /\ ~ret.thrown
  /\ Truthy(arg.logic) /\ TypeofObject(arg.logic)
  /\ \A check \in 1..4 : CheckFails(check, arg.logic, arg.config.validation)
  /\ Len(ret.val.errors) >= 4

(***************************************************************************)
(* Supplied parameters of buildFromTemplate: what params carries, whatever *)
(* its value.                                                              *)
(***************************************************************************)

\* the required parameters that params carries
SuppliedParameters(templateName, params) ==
  RequiredParameters(templateName) \ AbsentParameters(templateName, params)

\* result reports parameter name as missing
ReportedMissing(result, name) ==
  \E i \in 1..Len(ErrorsOf(result)) :
     ErrorsOf(result)[i] = Str("Missing required parameter: " \o name)

\* result reports that numeric-range got no bound
ReportedNoBound(result) ==
  \E i \in 1..Len(ErrorsOf(result)) :
     ErrorsOf(result)[i] = Str("At least one of min or max is required")

\* C26: buildFromTemplate reports a required parameter as missing only when
\* it is absent from params: a supplied propertyId or value, the empty string
\* included, is never reported as a missing parameter, and a supplied min or
\* max, 0 included, is never reported as a missing bound.
C26_MissingOnlyWhenAbsent ==
  pc = "built" /\ arg.templateName \in KnownTemplates /\ ~IsNullish(arg.params) =>
    /\ \A name \in SuppliedParameters(arg.templateName, arg.params) \ {"values"} :
          ~ReportedMissing(ret, name)
    /\ ~BoundsAbsent(arg.templateName, arg.params) => ~ReportedNoBound(ret)

\* string-equals was called with the empty string as its value and reports
\* value as missing
C26_Witness ==
  /\ pc = "built"
  /\ arg.templateName = "string-equals"
  /\ Get(arg.params, "propertyId") = Str("property_a")
  /\ Get(arg.params, "value") = Str("")
  /\ ErrorsOf(ret) = <<Str("Missing required parameter: value")>>

\* the same for the bounds of numeric-range alone: 0 counts as a bound
ZeroBoundIsPresent ==
  pc = "built" /\ arg.templateName = "numeric-range" /\ ~IsNullish(arg.params)
    /\ (Get(arg.params, "min") = Num(0) \/ Get(arg.params, "max") = Num(0)) =>
    ~ReportedNoBound(ret)

\* the same for the parameters supplied with a non-empty value
NonEmptyNeverMissing ==
  pc = "built" /\ arg.templateName \in KnownTemplates /\ ~IsNullish(arg.params) =>
    \A name \in SuppliedParameters(arg.templateName, arg.params) \ {"values"} :
       Get(arg.params, name) # Str("") => ~ReportedMissing(ret, name)

(***************************************************************************)
(* The callers of validateProposal with a template and its parameters      *)
(* (index.test.ts).  Init draws the template call and a config; the        *)
(* configs differ in what the structure pass, the property pass and the    *)
(* filter pass read.                                                       *)
(***************************************************************************)

\* a workflow whose workflowRid is empty
WorkflowWithoutRid == [Workflow EXCEPT !.workflowRid = Str("")]

\* a workflow whose object type declares other properties
OtherWorkflow ==
  [Workflow EXCEPT
     !.objectType.properties = <<[id |-> Str("unknown_property"), type |-> "string"]>>]

ProposalConfigs ==
  {Config(BaseCfg),
   Config(ValidationCfg(<<"filterNode">>, <<>>, <<>>, <<>>)),
   Config(ValidationCfg(AllStrategies, <<"EQUALS">>, <<>>, <<>>)),
   Config(ValidationCfg(<<"windowNode">>, <<"REGEX">>, <<>>, <<>>)),
   Config([BaseCfg EXCEPT !.grammarVersion = Str("V2")]),
   [workflow |-> WorkflowWithoutRid, validation |-> BaseCfg],
   [workflow |-> OtherWorkflow, validation |-> BaseCfg]}

ProposalArgs ==
  {[templateName |-> a.templateName, params |-> a.params, config |-> c] :
     a \in BuildArgs, c \in ProposalConfigs}

InitProposal ==
  /\ pc = "start"
  /\ heap = InitialHeap
  /\ sent = <<>>
  /\ now = 0
  /\ arg \in ProposalArgs
  /\ ret = Undef

\* the ProposalInput of the call
TemplateProposal(a) ==
  Obj([template |-> Str(a.templateName), params |-> a.params])

\* const result = validateProposal({ template, params }, config)
ValidateTemplateProposal ==
  /\ pc = "start"
  /\ pc' = "validatedTemplate"
  /\ ret' = validateProposal(TemplateProposal(arg), arg.config)
  /\ UNCHANGED <<arg, heap, outside>>

\* const result = buildFromTemplate(template, params, config.workflow)
BuildForProposal ==
  /\ pc = "start"
  /\ pc' = "builtTemplate"
  /\ ret' = buildFromTemplate(arg.templateName, arg.params, arg.config.workflow)
  /\ UNCHANGED <<arg, heap, outside>>

NextProposal == ValidateTemplateProposal \/ BuildForProposal

SpecProposal == InitProposal /\ [][NextProposal]_vars

\* the config accepts what wrapFilterAsRuleLogic writes and the EQUALS
\* operator
AcceptsBuilderOutput(config) ==
  /\ config.validation.grammarVersion = Str("V1")
  /\ Includes(config.validation.supportedStrategyTypes, Str("filterNode"))
  /\ config.workflow.workflowRid.t = "string"
  /\ config.workflow.workflowRid # Str("")
  /\ ~Includes(config.validation.unsupportedStringFilters, Str("EQUALS"))

\* params.propertyId is the id of a property the object type declares
DeclaresPropertyOf(params, objectType) ==
  /\ ~IsNullish(params)
  /\ \E i \in 1..Len(objectType.properties) :
        objectType.properties[i].id = Get(params, "propertyId")

\* buildFromTemplate succeeds on the caller's template and params
BuildSucceeds(a) ==
  Get(buildFromTemplate(a.templateName, a.params, a.config.workflow), "success")
    = Bool(TRUE)

\* C27: under a config whose grammarVersion is 'V1', whose
\* supportedStrategyTypes contains filterNode, whose workflowRid is a
\* non-empty string and whose unsupportedStringFilters does not contain
\* EQUALS, validateProposal({template, params}) is valid if and only if
\* buildFromTemplate succeeds and params.propertyId is a declared property of
\* the workflow's object type.
C27_BuilderOutputAccepted ==
  pc = "validatedTemplate" /\ AcceptsBuilderOutput(arg.config) =>
    /\ ~ret.thrown
    /\ ret.val.valid <=>
         /\ BuildSucceeds(arg)
         /\ DeclaresPropertyOf(arg.params, arg.config.workflow.objectType)

\* a numeric-range proposal on a declared property with the bound 0 has been
\* found valid
C27_Witness ==
  /\ pc = "validatedTemplate"
  /\ AcceptsBuilderOutput(arg.config)
  /\ arg.templateName = "numeric-range"
  /\ Get(arg.params, "propertyId") = Str("property_a")
  /\ Get(arg.params, "min") = Num(0)
  /\ ~ret.thrown
  /\ ret.val.valid

\* a built proposal on an undeclared property has been found invalid
BuiltOnUndeclaredProperty ==
  /\ pc = "validatedTemplate"
  /\ AcceptsBuilderOutput(arg.config)
  /\ BuildSucceeds(arg)
  /\ ~DeclaresPropertyOf(arg.params, arg.config.workflow.objectType)
  /\ ~ret.thrown
  /\ ~ret.val.valid
  /\ ret.val.structureErrors = <<>>

\* outside such configs a built proposal on a declared property is rejected
RejectedByOtherConfig ==
  /\ pc = "validatedTemplate"
  /\ ~AcceptsBuilderOutput(arg.config)
  /\ BuildSucceeds(arg)
  /\ DeclaresPropertyOf(arg.params, arg.config.workflow.objectType)
  /\ ~ret.thrown
  /\ ~ret.val.valid

\* creates i and j are two calls that both ended successfully
BothCreated(i, j) == i # j /\ pc[i] = "created" /\ pc[j] = "created"

\* C28: distinct successful create operations (createProposal or cmdCreate)
\* under the same config never submit the same proposal_id or the same
\* rule_id, also when the calls are issued concurrently or back to back.
C28_DistinctIds ==
  \A i, j \in Creates :
     BothCreated(i, j) =>
       /\ RequestOf(i).proposal_id # RequestOf(j).proposal_id
       /\ RequestOf(i).rule_id # RequestOf(j).rule_id

\* two createProposal calls made in the same millisecond have both succeeded
\* with the same proposal_id and the same rule_id
C28_Witness ==
  /\ BothCreated(1, 2)
  /\ arg[1].fn = "createProposal"
  /\ arg[2].fn = "createProposal"
  /\ RequestOf(1).proposal_id = RequestOf(2).proposal_id
  /\ RequestOf(1).rule_id = RequestOf(2).rule_id

\* two creates a millisecond apart have both succeeded with different ids
CreatedApart ==
  /\ BothCreated(1, 2)
  /\ RequestOf(1).proposal_id = Str("PROP-0")
  /\ RequestOf(2).proposal_id = Str("PROP-1")
  /\ RequestOf(1).rule_id # RequestOf(2).rule_id

\* two validation outcomes carry the same valid flag and the same structure,
\* property and filter error lists, or are the same throw
SameVerdict(library, cli) ==
  IF library.thrown \/ cli.thrown THEN library = cli
  ELSE /\ library.val.valid = cli.val.valid
       /\ library.val.structureErrors = cli.val.structureErrors
       /\ library.val.propertyErrors = cli.val.propertyErrors
       /\ library.val.filterErrors = cli.val.filterErrors

\* C29: for every raw rule logic and resolved config,
\* validateProposal({logic}, config) and performFullValidation(logic, config)
\* return the same valid flag and the same structure, property and filter
\* error lists.
C29_ValidatorsAgree ==
  pc = "validateProposal" =>
    SameVerdict(ret, performFullValidation(arg.logic, arg.config))

\* a logic that passes the structure pass and names another workflow is
\* valid for validateProposal and invalid for performFullValidation
C29_Witness ==
  /\ pc = "validateProposal"
  /\ Get(arg.logic, "workflowRid") = Str("ri.taurus.main.workflow.other")
  /\ ~ret.thrown
  /\ ret.val.valid
  /\ ~performFullValidation(arg.logic, arg.config).val.valid

\* the logic is an object whose workflowRid and objectTypeId, where it has
\* them, are the config's
NamesTheConfig(logic, config) ==
  /\ Truthy(logic)
  /\ MismatchErrors(logic, config) = <<>>

\* where the logic names the config's workflow and object type the two
\* validators agree
AgreeOnTheConfigsWorkflow ==
  pc = "validateProposal" /\ NamesTheConfig(arg.logic, arg.config) =>
    SameVerdict(ret, performFullValidation(arg.logic, arg.config))

\* validateProposal never reaches the structure pass with a falsy logic
FalsyLogicNotValidated ==
  /\ pc = "validateProposal"
  /\ arg.logic = Null
  /\ ret.val.structureErrors
       = <<Str("Either template+params or logic must be provided")>>
  /\ performFullValidation(arg.logic, arg.config).val.structureErrors
       # ret.val.structureErrors

(***************************************************************************)
(* config/resolver.ts.  A string is the sequence of its characters.  The   *)
(* module keeps one RegExp object, ENV_VAR_PATTERN, with the g flag: its   *)
(* lastIndex lives as long as the module and is read and written by exec   *)
(* and test.                                                               *)
(***************************************************************************)

\* const ENV_VAR_PATTERN = /\$\{([^}]+)\}/g
ResolverHeap == [ENV_VAR_PATTERN |-> [lastIndex |-> 0]]

\* the position of the "}" closing a match of the pattern that starts at
\* position i of s (positions from 1), or 0 when none starts there
MatchEnd(s, i) ==
  IF /\ i + 3 <= Len(s)
     /\ s[i] = "$"
     /\ s[i + 1] = "{"
     /\ s[i + 2] # "}"
     /\ \E j \in (i + 3)..Len(s) : s[j] = "}"
  THEN CHOOSE j \in (i + 3)..Len(s) :
         s[j] = "}" /\ \A k \in (i + 3)..(j - 1) : s[k] # "}"
  ELSE 0

\* ENV_VAR_PATTERN.exec(s) with the pattern's lastIndex: the leftmost match
\* from lastIndex on and the lastIndex it leaves, 0 when there is none
RegExpExec(s, lastIndex) ==
  LET starts == {i \in (lastIndex + 1)..Len(s) : MatchEnd(s, i) # 0}
      index == CHOOSE i \in starts : \A k \in starts : i <= k
  IN IF starts = {} THEN [found |-> FALSE, lastIndex |-> 0]
     ELSE [found |-> TRUE, index |-> index,
           group |-> SubSeq(s, index + 2, MatchEnd(s, index) - 1),
           lastIndex |-> MatchEnd(s, index)]

\* ENV_VAR_PATTERN.test(s)
RegExpTest(s, lastIndex) == RegExpExec(s, lastIndex)

\* process.env: A is set
ProcessEnv(name) == IF name = <<"A">> THEN Chars(<<"A", "A">>) ELSE Undef

\* value.replace(ENV_VAR_PATTERN, (match, varName) => ...): replace sets
\* lastIndex to 0, collects the matches until exec returns null, then calls
\* the callback on each; st is what the callback has written so far
RECURSIVE ReplaceFrom(_, _, _, _)
ReplaceFrom(s, lastIndex, options, st) ==
  LET m == RegExpExec(s, lastIndex)
      fullVarName == IF options.prefix # <<>> THEN options.prefix \o m.group
                     ELSE m.group
      envValue == ProcessEnv(fullVarName)
      kept == st.result \o SubSeq(s, lastIndex + 1, m.index - 1)
  IN IF st.thrown THEN st
     ELSE IF ~m.found
     THEN [st EXCEPT !.result = @ \o SubSeq(s, lastIndex + 1, Len(s))]
     ELSE IF envValue = Undef
     THEN ReplaceFrom(s, m.lastIndex, options,
                      [st EXCEPT !.missing = Append(@, Chars(fullVarName)),
                                 !.thrown = options.throwOnMissing,
                                 !.result = kept \o SubSeq(s, m.index, m.lastIndex)])
     ELSE ReplaceFrom(s, m.lastIndex, options,
                      [st EXCEPT !.resolved = TRUE,
                                 !.result = kept \o envValue.chars])

\* resolveEnvVars(value, options): what it returns or throws; the pattern's
\* lastIndex is 0 when replace is done
resolveEnvVars(value, options) ==
  LET st == ReplaceFrom(value, 0, options,
                        [result |-> <<>>, resolved |-> FALSE, missing |-> <<>>,
                         thrown |-> FALSE])
  IN IF st.thrown
     THEN Thrown("Error",
                 Fmt(<<"Missing environment variable: ",
                       st.missing[Len(st.missing)]>>))
     ELSE Returned([value |-> Chars(st.result),
                    resolved |-> Bool(st.resolved),
                    missing |-> IF Len(st.missing) > 0 THEN Arr(st.missing)
                                ELSE Undef])

\* hasEnvVars(value): what it returns and the lastIndex it leaves
hasEnvVars(value, lastIndex) ==
  [returned |-> Bool(RegExpTest(value, lastIndex).found),
   lastIndex |-> RegExpTest(value, lastIndex).lastIndex]

\* while ((match = ENV_VAR_PATTERN.exec(value)) !== null) names.push(match[1])
RECURSIVE NamesFrom(_, _, _)
NamesFrom(value, lastIndex, names) ==
  LET match == RegExpExec(value, lastIndex)
  IN IF ~match.found THEN names
     ELSE NamesFrom(value, match.lastIndex, Append(names, Chars(match.group)))

\* extractEnvVarNames(value): lastIndex is reset first, and is 0 again when
\* exec has returned null
extractEnvVarNames(value) == Arr(NamesFrom(value, 0, <<>>))

(***************************************************************************)
(* The callers of the resolver: any sequence of calls of the three         *)
(* functions on strings made of references and their characters.           *)
(***************************************************************************)
MaxPieces == 3

\* what the strings are made of: a reference to a variable that is set, one
\* to a variable that is not, and the characters of a reference
EnvPieces ==
  {<<"$", "{", "A", "}">>, <<"$", "{", "B", "}">>, <<"$">>, <<"{">>, <<"}">>,
   <<"A">>}

RECURSIVE Flatten(_)
Flatten(pieces) ==
  IF pieces = <<>> THEN <<>> ELSE Head(pieces) \o Flatten(Tail(pieces))

EnvStrings == {Flatten(pieces) : pieces \in SeqsUpTo(EnvPieces, MaxPieces)}

ResolverOptions ==
  {[throwOnMissing |-> t, prefix |-> p] : t \in BOOLEAN, p \in {<<>>, <<"A">>}}

InitResolver ==
  /\ pc = "start"
  /\ arg = Undef
  /\ ret = Undef
  /\ heap = ResolverHeap
  /\ sent = <<>>
  /\ now = 0

\* hasEnvVars(value)
HasEnvVars ==
  \E value \in EnvStrings :
     /\ pc' = "hasEnvVars"
     /\ arg' = [value |-> value]
     /\ ret' = hasEnvVars(value, heap.ENV_VAR_PATTERN.lastIndex).returned
     /\ heap' = [heap EXCEPT !.ENV_VAR_PATTERN.lastIndex =
                   hasEnvVars(value, @).lastIndex]
     /\ UNCHANGED outside

\* extractEnvVarNames(value)
ExtractEnvVarNames ==
  \E value \in EnvStrings :
     /\ pc' = "extractEnvVarNames"
     /\ arg' = [value |-> value]
     /\ ret' = extractEnvVarNames(value)
     /\ heap' = [heap EXCEPT !.ENV_VAR_PATTERN.lastIndex = 0]
     /\ UNCHANGED outside

\* resolveEnvVars(value, options)
ResolveEnvVars ==
  \E value \in EnvStrings, options \in ResolverOptions :
     /\ pc' = "resolveEnvVars"
     /\ arg' = [value |-> value, options |-> options]
     /\ ret' = resolveEnvVars(value, options)
     /\ heap' = [heap EXCEPT !.ENV_VAR_PATTERN.lastIndex = 0]
     /\ UNCHANGED outside

NextResolver == HasEnvVars \/ ExtractEnvVarNames \/ ResolveEnvVars

SpecResolver == InitResolver /\ [][NextResolver]_vars

\* s contains a ${NAME} reference
HasReference(s) == \E i \in 1..Len(s) : MatchEnd(s, i) # 0

\* C30: hasEnvVars(s) depends only on s: after any sequence of earlier calls
\* of hasEnvVars, extractEnvVarNames and resolveEnvVars it returns true iff
\* s contains a ${NAME} reference.
C30_DependsOnlyOnString ==
  pc = "hasEnvVars" => ret = Bool(HasReference(arg.value))

\* hasEnvVars('${A}') has returned false, the call before it having left
\* lastIndex behind the reference
C30_Witness ==
  /\ pc = "hasEnvVars"
  /\ arg.value = <<"$", "{", "A", "}">>
  /\ ret = Bool(FALSE)

\* a call of hasEnvVars that finds the pattern's lastIndex at 0 answers for
\* the string alone
RightFromLastIndexZero ==
  [][HasEnvVars /\ heap.ENV_VAR_PATTERN.lastIndex = 0 =>
       ret' = Bool(HasReference(arg'.value))]_vars

\* extractEnvVarNames and resolveEnvVars leave lastIndex at 0; hasEnvVars
\* leaves it behind the reference it found
LastIndexLeft ==
  /\ pc \in {"extractEnvVarNames", "resolveEnvVars"} =>
       heap.ENV_VAR_PATTERN.lastIndex = 0
  /\ pc = "hasEnvVars" =>
       (heap.ENV_VAR_PATTERN.lastIndex # 0 <=> ret = Bool(TRUE))

\* resolveEnvVars has replaced a reference and kept one that is not set
ResolvedAndMissing ==
  /\ pc = "resolveEnvVars"
  /\ ~ret.thrown
  /\ ret.val.resolved = Bool(TRUE)
  /\ ret.val.missing # Undef
====
